---- MODULE Spec2Model ----
(***************************************************************************)
(* A model of the sort / selection cores of MiscAlgoRs.                    *)
(*                                                                         *)
(* Arrays are TLA+ sequences; every index variable keeps the 0-based value *)
(* it has in the Rust source and elements are read through At(arr, i).     *)
(* An element is a pair <<key, id>>: the comparator looks only at the key, *)
(* the id is the position the element had in the input, so that two        *)
(* elements that compare Equal are still distinguishable (stability,       *)
(* permutation).                                                           *)
(***************************************************************************)
EXTENDS Integers, Sequences, FiniteSets, TLC

VARIABLES fp,    \* one run of fat_partition / fat_partition_no_clone_required
          srt,   \* one call of a sequential sort entry point
          lq,    \* a LazyQuickSorter (comparator form) and its last two at calls
          ev,    \* a memoizing and a naive fixed-point evaluator of FibonacciFunc
          cms,   \* one call of concurrent_merge_sort and its workers
          kq,   \* a LazyQuickSorter (key-extractor form) and its last at call
          pf,   \* one call of a function of RangePartition, binary_search_leftmost or median_of_three_pivot
          sp,   \* a DagShortestPathSolver, its cache and its last query
          ca,   \* a Vec<Option<V>> cache, used directly and through KeyMappedCacheAccess
          ll,   \* a MyLinkedList and the cursors handed out so far
          hp,   \* a MyMinHeap and its last operation
          hr,   \* one run of hoare_partition
          mg    \* one run of a merge function of merge.rs

vars == <<fp, srt, lq, ev, cms, kq, pf, sp, ca, ll, hp, hr, mg>>

(***************************************************************************)
(* Bounds of the model.                                                    *)
(***************************************************************************)
MaxKey == 3      \* keys are 1..MaxKey
MaxLenP == 4     \* longest enumerated slice handed to a partition
MaxLen == 6      \* longest enumerated input of a sort entry point
MaxLenL == 5     \* longest sequence handed to a LazyQuickSorter
MaxKeyL == 4     \* keys of the sequences handed to a LazyQuickSorter are 1..MaxKeyL
MaxInput == 10   \* largest input handed to the fixed-point evaluators
MaxLenC == 6     \* longest sequence over 1..MaxKey handed to concurrent_merge_sort
MaxLenWide == 9  \* longest sequence over the keys 1 and MaxKey handed to it
MaxPar == 3      \* largest parallelism handed to concurrent_merge_sort
MaxLenK == 5     \* longest sequence handed to the key-extractor LazyQuickSorter
MaxLenB == 5     \* longest sorted slice handed to binary_search_leftmost
MaxLenR == 4     \* longest sorted range handed to find_partition_by_pivots
MaxPivots == 2   \* most pivots handed to find_partition_by_pivots
MaxRangeEnd == 7 \* largest range end handed to evenly_partition
MaxParts == 4    \* largest part count handed to evenly_partition
MaxLenM == 4     \* longest slice handed to median_of_three_pivot
MaxNodes == 3    \* nodes of the enumerated DAGs
MaxWeight == 2   \* largest edge distance of the enumerated DAGs
MaxCacheKey == 3 \* largest (projected) key put to or read from the Vec cache
MaxValue == 2    \* cached values are 1..MaxValue
MaxSlots == 3    \* slots of the arena of a MyLinkedList under insertion and removal
MaxRemoved == 2  \* successful remove_at calls in one run
MaxListValue == 1 \* values stored in the list are 1..MaxListValue (payload only)
MaxHeap == 5     \* elements held by a MyMinHeap under insert and take_min
MaxLenH == 5     \* longest slice handed to hoare_partition
MaxHalf == 4     \* longest half handed to merge_two_adjacent_sorted_sequences_inplace
MaxSeqs == 3     \* most sequences handed to merge_multiple_sorted_sequences_*
MaxSeqLen == 2   \* longest of these sequences
MaxMergeKey == 2 \* their keys are 1..MaxMergeKey
MaxTotal == 5    \* most elements in all of them together
\* concurrent_merge_sort delegates to the sequential sort when
\* len <= parallelism * 200 (concurrent_merge_sort.rs:166).  The model scales
\* the factor 200 down to this value so that sequences of at most MaxLenWide
\* elements reach the worker path; every part then still holds at least this
\* many elements, as in the source.
SequentialCutoffPerWorker == 1

\* the value of a variable that the specification at hand does not use
FpIdle == [pc |-> "idle"]

SrtIdle == [pc |-> "idle"]

LqIdle == [pc |-> "idle"]

EvIdle == [pc |-> "idle"]

CmsIdle == [pc |-> "idle"]

KqIdle == [pc |-> "idle"]

PfIdle == [pc |-> "idle"]

SpIdle == [pc |-> "idle"]

CaIdle == [pc |-> "idle"]

LlIdle == [pc |-> "idle"]

HpIdle == [pc |-> "idle"]

HrIdle == [pc |-> "idle"]

MgIdle == [pc |-> "idle"]

(***************************************************************************)
(* Elements, comparator, slices.                                           *)
(***************************************************************************)
Key(e) == e[1]

comparator(a, b) ==
    IF Key(a) < Key(b) THEN "Less"
    ELSE IF Key(a) = Key(b) THEN "Equal"
    ELSE "Greater"

At(arr, i) == arr[i + 1]

Slice(arr, from, to) == SubSeq(arr, from + 1, to)

Swap(arr, a, b) ==
    [arr EXCEPT ![a + 1] = arr[b + 1], ![b + 1] = arr[a + 1]]

\* the slice a caller builds from a sequence of keys
MkArr(keys) == [i \in 1..Len(keys) |-> <<keys[i], i>>]

KeySeqs(lo, hi) == UNION {[1..n -> 1..MaxKey] : n \in lo..hi}

ElemSet(arr) == {arr[i] : i \in 1..Len(arr)}

IsPermutation(a, b) ==
    /\ Len(a) = Len(b)
    /\ \A e \in ElemSet(a) \cup ElemSet(b) :
          Cardinality({i \in 1..Len(a) : a[i] = e})
              = Cardinality({i \in 1..Len(b) : b[i] = e})

IsNonDecreasing(arr) ==
    \A i \in 1..(Len(arr) - 1) : comparator(arr[i], arr[i + 1]) # "Greater"

\* Equal elements appear in the order of their input positions
IsStable(arr) ==
    \A i, j \in 1..Len(arr) :
        (i < j /\ comparator(arr[i], arr[j]) = "Equal") => arr[i][2] < arr[j][2]

(***************************************************************************)
(* quick_sort/partition.rs : fat partition, one loop iteration at a time.  *)
(* The loop state is a record; pc is "loop" while the while-loop runs,     *)
(* "returned" after the final assert_eq and "panicked" when an arithmetic  *)
(* underflow, an out-of-bounds index or an assertion stops the function.   *)
(***************************************************************************)
fat_partition_enter(arr, pivot_index) ==
    IF ~(Len(arr) > 2) \/ pivot_index >= Len(arr)
    THEN [pc |-> "panicked", kind |-> "clone", input |-> arr, arr |-> arr,
          initial_pivot_index |-> pivot_index,
          pivot |-> <<0, 0>>, left_index |-> 0, right_index |-> 0, eq_index |-> 0]
    ELSE [pc |-> "loop", kind |-> "clone", input |-> arr, arr |-> arr,
          initial_pivot_index |-> pivot_index,
          pivot |-> At(arr, pivot_index),
          left_index |-> 0, right_index |-> Len(arr) - 1, eq_index |-> 0]

\* fat_partition_step whose Greater branch forgets to move the element to the right
fat_partition_step_no_right_swap(s) ==
    IF s.eq_index <= s.right_index
    THEN LET c == comparator(At(s.arr, s.eq_index), s.pivot) IN
         IF c = "Less"
         THEN IF s.left_index = s.eq_index
              THEN [s EXCEPT !.left_index = @ + 1, !.eq_index = @ + 1]
              ELSE [s EXCEPT !.arr = Swap(s.arr, s.eq_index, s.left_index),
                             !.left_index = @ + 1, !.eq_index = @ + 1]
         ELSE IF c = "Equal"
         THEN [s EXCEPT !.eq_index = @ + 1]
         ELSE IF s.right_index = 0
              THEN [s EXCEPT !.pc = "panicked"]
              ELSE [s EXCEPT !.eq_index = @ + 1, !.right_index = @ - 1]
    ELSE IF s.eq_index = s.right_index + 1
         THEN [s EXCEPT !.pc = "returned"]
         ELSE [s EXCEPT !.pc = "panicked"]

fat_partition_step(s) ==
    IF s.eq_index <= s.right_index
    THEN LET c == comparator(At(s.arr, s.eq_index), s.pivot) IN
         IF c = "Less"
         THEN IF s.left_index = s.eq_index
              THEN [s EXCEPT !.left_index = @ + 1, !.eq_index = @ + 1]
              ELSE [s EXCEPT !.arr = Swap(s.arr, s.eq_index, s.left_index),
                             !.left_index = @ + 1, !.eq_index = @ + 1]
         ELSE IF c = "Equal"
         THEN [s EXCEPT !.eq_index = @ + 1]
         ELSE IF s.right_index = 0
              THEN [s EXCEPT !.arr = Swap(s.arr, s.eq_index, s.right_index),
                             !.pc = "panicked"]
              ELSE [s EXCEPT !.arr = Swap(s.arr, s.eq_index, s.right_index),
                             !.right_index = @ - 1]
    ELSE IF s.eq_index = s.right_index + 1
         THEN [s EXCEPT !.pc = "returned"]
         ELSE [s EXCEPT !.pc = "panicked"]

fat_partition_no_clone_required_enter(arr, initial_pivot_index) ==
    IF ~(Len(arr) > 2) \/ initial_pivot_index >= Len(arr)
    THEN [pc |-> "panicked", kind |-> "no_clone", input |-> arr, arr |-> arr,
          initial_pivot_index |-> initial_pivot_index,
          curr_pivot_index |-> initial_pivot_index,
          left_index |-> 0, right_index |-> 0, eq_index |-> 0]
    ELSE [pc |-> "loop", kind |-> "no_clone", input |-> arr, arr |-> arr,
          initial_pivot_index |-> initial_pivot_index,
          curr_pivot_index |-> initial_pivot_index,
          left_index |-> 0, right_index |-> Len(arr) - 1, eq_index |-> 0]

\* fat_partition_no_clone_required_step without the pivot tracking of the Less swap
fat_partition_no_clone_required_step_lost_pivot(s) ==
    IF s.eq_index <= s.right_index
    THEN IF s.curr_pivot_index = s.eq_index
         THEN [s EXCEPT !.eq_index = @ + 1]
         ELSE LET c == comparator(At(s.arr, s.eq_index), At(s.arr, s.curr_pivot_index)) IN
              IF c = "Less"
              THEN IF s.left_index = s.eq_index
                   THEN [s EXCEPT !.left_index = @ + 1, !.eq_index = @ + 1]
                   ELSE [s EXCEPT !.arr = Swap(s.arr, s.eq_index, s.left_index),
                                  !.left_index = @ + 1, !.eq_index = @ + 1]
              ELSE IF c = "Equal"
              THEN [s EXCEPT !.eq_index = @ + 1]
              ELSE IF s.right_index = 0
                   THEN [s EXCEPT !.arr = Swap(s.arr, s.eq_index, s.right_index),
                                  !.pc = "panicked"]
                   ELSE [s EXCEPT !.arr = Swap(s.arr, s.eq_index, s.right_index),
                                  !.curr_pivot_index =
                                      IF s.right_index = s.curr_pivot_index
                                      THEN s.eq_index ELSE @,
                                  !.right_index = @ - 1]
    ELSE IF s.eq_index = s.right_index + 1
         THEN [s EXCEPT !.pc = "returned"]
         ELSE [s EXCEPT !.pc = "panicked"]

fat_partition_no_clone_required_step(s) ==
    IF s.eq_index <= s.right_index
    THEN IF s.curr_pivot_index = s.eq_index
         THEN [s EXCEPT !.eq_index = @ + 1]
         ELSE LET c == comparator(At(s.arr, s.eq_index), At(s.arr, s.curr_pivot_index)) IN
              IF c = "Less"
              THEN IF s.left_index = s.eq_index
                   THEN [s EXCEPT !.left_index = @ + 1, !.eq_index = @ + 1]
                   ELSE [s EXCEPT !.arr = Swap(s.arr, s.eq_index, s.left_index),
                                  !.curr_pivot_index =
                                      IF s.left_index = s.curr_pivot_index
                                      THEN s.eq_index ELSE @,
                                  !.left_index = @ + 1, !.eq_index = @ + 1]
              ELSE IF c = "Equal"
              THEN [s EXCEPT !.eq_index = @ + 1]
              ELSE IF s.right_index = 0
                   THEN [s EXCEPT !.arr = Swap(s.arr, s.eq_index, s.right_index),
                                  !.pc = "panicked"]
                   ELSE [s EXCEPT !.arr = Swap(s.arr, s.eq_index, s.right_index),
                                  !.curr_pivot_index =
                                      IF s.right_index = s.curr_pivot_index
                                      THEN s.eq_index ELSE @,
                                  !.right_index = @ - 1]
    ELSE IF s.eq_index = s.right_index + 1
         THEN [s EXCEPT !.pc = "returned"]
         ELSE [s EXCEPT !.pc = "panicked"]

\* the whole function: iterate the loop until it returns or panics
RECURSIVE fat_partition_no_clone_required(_)
fat_partition_no_clone_required(s) ==
    IF s.pc # "loop" THEN s
    ELSE fat_partition_no_clone_required(fat_partition_no_clone_required_step(s))

RECURSIVE fat_partition(_)
fat_partition(s) ==
    IF s.pc # "loop" THEN s
    ELSE fat_partition(fat_partition_step(s))


(***************************************************************************)
(* quick_sort/pivot_select.rs                                              *)
(***************************************************************************)
is_le(c) == c = "Less" \/ c = "Equal"

is_ge(c) == c = "Greater" \/ c = "Equal"

\* callers pass a slice of length >= 1 (len - 1 underflows on an empty slice)
median_of_three_pivot(arr) ==
    LET len == Len(arr)
        i1 == 0
        i2 == len \div 2
        i3 == len - 1
        cmp12 == comparator(At(arr, i1), At(arr, i2))
        cmp23 == comparator(At(arr, i2), At(arr, i3))
        cmp13 == comparator(At(arr, i1), At(arr, i3))
    IN IF is_le(cmp12) /\ is_le(cmp23) THEN i2
       ELSE IF is_ge(cmp12) /\ is_ge(cmp23) THEN i2
       ELSE IF is_ge(cmp12) /\ is_le(cmp13) THEN i1
       ELSE IF is_ge(cmp13) /\ is_le(cmp23) THEN i1
       ELSE i3

(***************************************************************************)
(* quick_sort/simple_quick_sort.rs                                         *)
(* A call returns [arr, panicked]: the slice as the call leaves it and     *)
(* whether the call unwound with a panic.                                  *)
(***************************************************************************)
Returned(arr) == [arr |-> arr, panicked |-> FALSE]

Panicked(arr) == [arr |-> arr, panicked |-> TRUE]

RECURSIVE normal_quick_sort(_)
normal_quick_sort(arr) ==
    LET len == Len(arr) IN
    IF len <= 1 THEN Returned(arr)
    ELSE IF len = 2
    THEN IF comparator(At(arr, 0), At(arr, 1)) = "Greater"
         THEN Returned(Swap(arr, 0, 1))
         ELSE Returned(arr)
    ELSE LET initial_pivot_index == median_of_three_pivot(arr)
             p == fat_partition_no_clone_required(
                      fat_partition_no_clone_required_enter(arr, initial_pivot_index))
             l == p.left_index
             r == p.eq_index
         IN IF p.pc = "panicked" \/ l > len \/ r > len
            THEN Panicked(p.arr)
            ELSE LET left_part == normal_quick_sort(Slice(p.arr, 0, l))
                     right_part == normal_quick_sort(Slice(p.arr, r, len))
                 IN IF left_part.panicked
                    THEN Panicked(left_part.arr \o Slice(p.arr, l, len))
                    ELSE [arr |-> left_part.arr \o Slice(p.arr, l, r) \o right_part.arr,
                          panicked |-> right_part.panicked]

(***************************************************************************)
(* quick_sort/stable_quick_sort.rs                                         *)
(***************************************************************************)
\* elements Equal to the pivot are sent to the left part instead of the right
RECURSIVE functional_style_stable_quick_sort_equal_to_left(_)
functional_style_stable_quick_sort_equal_to_left(arr) ==
    IF arr = <<>> THEN <<>>
    ELSE LET pivot == At(arr, 0)
             rest == Slice(arr, 1, Len(arr))
             NotGreater(x) == comparator(x, pivot) # "Greater"
             IsGreater(x) == comparator(x, pivot) = "Greater"
             left == SelectSeq(rest, NotGreater)
             right == SelectSeq(rest, IsGreater)
             left_sorted == functional_style_stable_quick_sort_equal_to_left(left)
             right_sorted == functional_style_stable_quick_sort_equal_to_left(right)
         IN left_sorted \o <<pivot>> \o right_sorted

RECURSIVE functional_style_stable_quick_sort(_)
functional_style_stable_quick_sort(arr) ==
    IF arr = <<>> THEN <<>>
    ELSE LET pivot == At(arr, 0)
             rest == Slice(arr, 1, Len(arr))
             IsLess(x) == comparator(x, pivot) = "Less"
             NotLess(x) == comparator(x, pivot) # "Less"
             left == SelectSeq(rest, IsLess)
             right == SelectSeq(rest, NotLess)
             left_sorted == functional_style_stable_quick_sort(left)
             right_sorted == functional_style_stable_quick_sort(right)
         IN left_sorted \o <<pivot>> \o right_sorted

(***************************************************************************)
(* merge_sort/merge.rs                                                     *)
(***************************************************************************)
\* <[T]>::binary_search_by(|probe| compare(probe, target)) on a slice sorted
\* under the comparator: the standard library leaves open which of several
\* equal elements is reported, so the operator yields every permitted result.
\* Ok(index)  is [ok |-> TRUE,  index |-> index],
\* Err(index) is [ok |-> FALSE, index |-> index].
binary_search_by(arr, target) ==
    LET matches == {i \in 0..(Len(arr) - 1) : comparator(At(arr, i), target) = "Equal"}
        insertion == Cardinality({i \in 0..(Len(arr) - 1) :
                                     comparator(At(arr, i), target) = "Less"})
    IN IF matches # {}
       THEN {[ok |-> TRUE, index |-> i] : i \in matches}
       ELSE {[ok |-> FALSE, index |-> insertion]}

\* merge_two_sorted_sequences as merge_two_adjacent_sorted_sequences_inplace
\* calls it: arr1 is the temporary copy of the left part, arr2 is the live
\* right part arr[separation_index..], and the consumer writes arr[index].
merge_enter(arr, separation_index) ==
    [pc |-> "loop", arr |-> arr, temp |-> Slice(arr, 0, separation_index),
     separation_index |-> separation_index, i1 |-> 0, i2 |-> 0]

MergeWrite(m, index, element) ==
    IF index < Len(m.arr)
    THEN [m EXCEPT !.arr = [@ EXCEPT ![index + 1] = element]]
    ELSE [m EXCEPT !.pc = "panicked"]

\* the Equal arm emits arr2[i2] instead of arr1[i1]
merge_two_sorted_sequences_step_right_on_equal(m) ==
    LET len1 == Len(m.temp)
        len2 == Len(m.arr) - m.separation_index
        e1 == At(m.temp, m.i1)
        e2 == At(m.arr, m.separation_index + m.i2)
    IN IF m.i1 < len1 /\ m.i2 < len2
       THEN IF comparator(e1, e2) = "Less"
            THEN [MergeWrite(m, m.i1 + m.i2, e1) EXCEPT !.i1 = @ + 1]
            ELSE [MergeWrite(m, m.i1 + m.i2, e2) EXCEPT !.i2 = @ + 1]
       ELSE IF m.i1 < len1
       THEN [MergeWrite(m, m.i1 + m.i2, e1) EXCEPT !.i1 = @ + 1]
       ELSE IF m.i2 < len2
       THEN [MergeWrite(m, m.i1 + m.i2, e2) EXCEPT !.i2 = @ + 1]
       ELSE [m EXCEPT !.pc = "returned"]

merge_two_sorted_sequences_step(m) ==
    LET len1 == Len(m.temp)
        len2 == Len(m.arr) - m.separation_index
        e1 == At(m.temp, m.i1)
        e2 == At(m.arr, m.separation_index + m.i2)
    IN IF m.i1 < len1 /\ m.i2 < len2
       THEN LET ordering == comparator(e1, e2) IN
            IF ordering = "Less"
            THEN [MergeWrite(m, m.i1 + m.i2, e1) EXCEPT !.i1 = @ + 1]
            ELSE IF ordering = "Equal"
            THEN [MergeWrite(m, m.i1 + m.i2, e1) EXCEPT !.i1 = @ + 1]
            ELSE [MergeWrite(m, m.i1 + m.i2, e2) EXCEPT !.i2 = @ + 1]
       ELSE IF m.i1 < len1
       THEN [MergeWrite(m, m.i1 + m.i2, e1) EXCEPT !.i1 = @ + 1]
       ELSE IF m.i2 < len2
       THEN [MergeWrite(m, m.i1 + m.i2, e2) EXCEPT !.i2 = @ + 1]
       ELSE [m EXCEPT !.pc = "returned"]

RECURSIVE merge_two_sorted_sequences(_)
merge_two_sorted_sequences(m) ==
    IF m.pc # "loop" THEN m
    ELSE merge_two_sorted_sequences(merge_two_sorted_sequences_step(m))

merge_two_adjacent_sorted_sequences_inplace(arr, separation_index) ==
    LET len == Len(arr) IN
    IF ~(separation_index <= len) THEN Panicked(arr)
    ELSE IF separation_index = 0 \/ separation_index = len THEN Returned(arr)
    ELSE LET m == merge_two_sorted_sequences(merge_enter(arr, separation_index))
         IN [arr |-> m.arr, panicked |-> m.pc = "panicked"]

\* every outcome the two binary searches allow
smart_merge_two_adjacent_sorted_sequences_inplace(arr, separation_index) ==
    LET len == Len(arr) IN
    IF len <= 1 THEN {Returned(arr)}
    ELSE IF separation_index = 0 \/ separation_index = len THEN {Returned(arr)}
    ELSE IF separation_index > len THEN {Panicked(arr)}
    ELSE LET left_part == Slice(arr, 0, separation_index)
             right_part == Slice(arr, separation_index, len)
             left_max == At(left_part, separation_index - 1)
             right_min == At(right_part, 0)
         IN IF comparator(left_max, right_min) # "Greater" THEN {Returned(arr)}
            ELSE UNION { {
                 LET right_delimit_index == separation_index + rs.index
                     left_delimit_index == IF ls.ok THEN ls.index + 1 ELSE ls.index
                 IN IF separation_index = left_delimit_index
                       \/ separation_index = right_delimit_index
                    THEN Returned(arr)
                    ELSE IF left_delimit_index > right_delimit_index
                    THEN Panicked(arr)
                    ELSE LET inner == merge_two_adjacent_sorted_sequences_inplace(
                                          Slice(arr, left_delimit_index, right_delimit_index),
                                          separation_index - left_delimit_index)
                         IN [arr |-> Slice(arr, 0, left_delimit_index) \o inner.arr
                                        \o Slice(arr, right_delimit_index, len),
                             panicked |-> inner.panicked]
                 : ls \in binary_search_by(left_part, right_min) }
                 : rs \in binary_search_by(right_part, left_max) }

(***************************************************************************)
(* merge_sort/simple_merge_sort.rs                                         *)
(* simple_merge_sort_inplace(arr) is the set of outcomes [arr, panicked]   *)
(* the call can have, one for every way the binary searches may answer.    *)
(***************************************************************************)
RECURSIVE simple_merge_sort_inplace(_)
simple_merge_sort_inplace(arr) ==
    IF Len(arr) <= 1 THEN {Returned(arr)}
    ELSE LET mid == Len(arr) \div 2
             lefts == simple_merge_sort_inplace(Slice(arr, 0, mid))
         IN UNION { IF l.panicked
                    THEN {Panicked(l.arr \o Slice(arr, mid, Len(arr)))}
                    ELSE UNION { IF r.panicked
                                 THEN {Panicked(l.arr \o r.arr)}
                                 ELSE smart_merge_two_adjacent_sorted_sequences_inplace(
                                          l.arr \o r.arr, mid)
                                 : r \in simple_merge_sort_inplace(Slice(arr, mid, Len(arr))) }
                    : l \in lefts }


(***************************************************************************)
(* data_structure/linked_list.rs                                           *)
(* Option values: None is <<>>, Some(x) is <<x>>.                          *)
(***************************************************************************)
None == <<>>

Some(x) == <<x>>

Unwrap(o) == o[1]

\* MyLinkedList::new
MyLinkedList_new == [nodes |-> <<>>, head_and_tail |-> None]

\* SlotMap::insert on a map from which nothing was removed: the slots are
\* handed out in order, the key is the slot number
slotmap_insert_key(nodes) == Len(nodes) + 1

link(nodes, left, right) ==
    [nodes EXCEPT ![left].next = Some(right), ![right].prev = Some(left)]

push_back(list, value) ==
    LET new_key == slotmap_insert_key(list.nodes)
        nodes1 == Append(list.nodes, [value |-> value, next |-> None, prev |-> None])
    IN IF list.head_and_tail = None
       THEN [nodes |-> nodes1, head_and_tail |-> Some(<<new_key, new_key>>)]
       ELSE LET head == Unwrap(list.head_and_tail)[1]
                tail == Unwrap(list.head_and_tail)[2]
            IN [nodes |-> link(nodes1, tail, new_key),
                head_and_tail |-> Some(<<head, new_key>>)]

begin(list) ==
    IF list.head_and_tail = None THEN None ELSE Some(Unwrap(list.head_and_tail)[1])

end(list) ==
    IF list.head_and_tail = None THEN None ELSE Some(Unwrap(list.head_and_tail)[2])

contains_key(list, key) == key \in DOMAIN list.nodes

\* MyLinkedList::swap: exchanges the two values; nothing happens when the
\* cursors are equal or invalid
list_swap_values(list, a, b) ==
    IF a # b /\ contains_key(list, a) /\ contains_key(list, b)
    THEN [list EXCEPT !.nodes = [@ EXCEPT ![a].value = list.nodes[b].value,
                                         ![b].value = list.nodes[a].value]]
    ELSE list

\* test helper to_linked_list
RECURSIVE to_linked_list(_)
to_linked_list(vec) ==
    IF vec = <<>> THEN MyLinkedList_new
    ELSE push_back(to_linked_list(SubSeq(vec, 1, Len(vec) - 1)), vec[Len(vec)])

\* list.iter().collect(): follow next from the head
RECURSIVE iter_from(_, _, _)
iter_from(list, cursor, fuel) ==
    IF cursor = None \/ fuel = 0 THEN <<>>
    ELSE <<list.nodes[Unwrap(cursor)].value>>
            \o iter_from(list, list.nodes[Unwrap(cursor)].next, fuel - 1)

iter_collect(list) == iter_from(list, begin(list), Len(list.nodes) + 1)

(***************************************************************************)
(* quick_sort/container_agnostic_quick_sort.rs                             *)
(* A container is [kind |-> "slice", arr |-> ...] or                       *)
(* [kind |-> "list", list |-> ...]; a slice index is a number, a linked    *)
(* list index is Cursor(key) or AfterLast.  The can_* predicates say when  *)
(* the trait method returns instead of panicking.                          *)
(***************************************************************************)
Cursor(key) == [tag |-> "Cursor", key |-> key]

AfterLast == [tag |-> "AfterLast", key |-> 0]

SliceContainer(arr) == [kind |-> "slice", arr |-> arr]

ListContainer(list) == [kind |-> "list", list |-> list]

can_get(c, index) ==
    IF c.kind = "slice" THEN index >= 0 /\ index < Len(c.arr)
    ELSE index.tag = "Cursor" /\ contains_key(c.list, index.key)

get(c, index) ==
    IF c.kind = "slice" THEN At(c.arr, index)
    ELSE c.list.nodes[index.key].value

can_swap(c, a, b) ==
    IF c.kind = "slice" THEN can_get(c, a) /\ can_get(c, b)
    ELSE a.tag = "Cursor" /\ b.tag = "Cursor"

swap(c, a, b) ==
    IF c.kind = "slice" THEN [c EXCEPT !.arr = Swap(@, a, b)]
    ELSE [c EXCEPT !.list = list_swap_values(@, a.key, b.key)]

can_next_index(c, index) ==
    IF c.kind = "slice" THEN TRUE
    ELSE index.tag = "Cursor" /\ contains_key(c.list, index.key)

next_index(c, index) ==
    IF c.kind = "slice" THEN index + 1
    ELSE LET next == c.list.nodes[index.key].next
         IN IF next # None THEN Cursor(Unwrap(next)) ELSE AfterLast

\* usize subtraction: index - 1 panics on 0
can_prev_index(c, index) ==
    IF c.kind = "slice" THEN index >= 1
    ELSE IF index.tag = "Cursor" THEN contains_key(c.list, index.key)
    ELSE end(c.list) # None

prev_index(c, index) ==
    IF c.kind = "slice" THEN index - 1
    ELSE IF index.tag = "Cursor"
    THEN LET prev == c.list.nodes[index.key].prev
         IN IF prev # None THEN Cursor(Unwrap(prev)) ELSE AfterLast
    ELSE Cursor(Unwrap(end(c.list)))

can_select_pivot_index(c, range_begin, range_end_exclusive) ==
    IF c.kind = "slice"
    THEN range_begin < range_end_exclusive /\ range_end_exclusive <= Len(c.arr)
    ELSE TRUE

select_pivot_index(c, range_begin, range_end_exclusive) ==
    IF c.kind = "slice"
    THEN median_of_three_pivot(Slice(c.arr, range_begin, range_end_exclusive)) + range_begin
    ELSE range_begin

container_agnostic_fat_partition_enter(container, range_begin, range_end_exclusive, initial_pivot_index, range_size) ==
    LET base == [pc |-> "loop", container |-> container,
                 range_size |-> range_size,
                 curr_pivot_index |-> initial_pivot_index,
                 left_index |-> range_begin,
                 right_index |-> range_end_exclusive,
                 eq_index |-> range_begin,
                 left_part_size |-> 0, right_part_size |-> 0,
                 left_part_and_eq_part_size |-> 0,
                 left |-> range_begin, right |-> range_end_exclusive]
    IN IF range_begin = range_end_exclusive THEN [base EXCEPT !.pc = "returned"]
       ELSE IF ~can_prev_index(container, range_end_exclusive)
       THEN [base EXCEPT !.pc = "panicked"]
       ELSE [base EXCEPT !.right_index = prev_index(container, range_end_exclusive)]

\* the Greater arm forgets to re-point the pivot index after the swap
container_agnostic_fat_partition_step_lost_pivot(s) ==
    LET c == s.container
        Panic == [s EXCEPT !.pc = "panicked"]
    IN
    IF s.left_part_and_eq_part_size + 1 + s.right_part_size <= s.range_size
    THEN IF s.curr_pivot_index = s.eq_index
         THEN IF ~can_next_index(c, s.eq_index) THEN Panic
              ELSE [s EXCEPT !.eq_index = next_index(c, s.eq_index),
                             !.left_part_and_eq_part_size = @ + 1]
         ELSE IF ~can_get(c, s.eq_index) \/ ~can_get(c, s.curr_pivot_index) THEN Panic
         ELSE LET ord == comparator(get(c, s.eq_index), get(c, s.curr_pivot_index)) IN
              IF ord = "Less"
              THEN IF s.left_index = s.eq_index
                   THEN IF ~can_next_index(c, s.left_index) THEN Panic
                        ELSE [s EXCEPT !.left_index = next_index(c, s.left_index),
                                       !.eq_index = next_index(c, s.eq_index),
                                       !.left_part_size = @ + 1,
                                       !.left_part_and_eq_part_size = @ + 1]
                   ELSE IF ~can_swap(c, s.eq_index, s.left_index)
                           \/ ~can_next_index(c, s.left_index)
                           \/ ~can_next_index(c, s.eq_index) THEN Panic
                        ELSE [s EXCEPT !.container = swap(c, s.eq_index, s.left_index),
                                       !.curr_pivot_index =
                                           IF s.left_index = s.curr_pivot_index
                                           THEN s.eq_index ELSE @,
                                       !.left_index = next_index(c, s.left_index),
                                       !.eq_index = next_index(c, s.eq_index),
                                       !.left_part_size = @ + 1,
                                       !.left_part_and_eq_part_size = @ + 1]
              ELSE IF ord = "Equal"
              THEN IF ~can_next_index(c, s.eq_index) THEN Panic
                   ELSE [s EXCEPT !.eq_index = next_index(c, s.eq_index),
                                  !.left_part_and_eq_part_size = @ + 1]
              ELSE IF ~can_swap(c, s.eq_index, s.right_index) THEN Panic
                   ELSE IF ~can_prev_index(c, s.right_index)
                   THEN [s EXCEPT !.container = swap(c, s.eq_index, s.right_index),
                                  !.pc = "panicked"]
                   ELSE [s EXCEPT !.container = swap(c, s.eq_index, s.right_index),
                                  !.right_index = prev_index(c, s.right_index),
                                  !.right_part_size = @ + 1]
    ELSE IF ~can_next_index(c, s.right_index) THEN Panic
         ELSE IF ~(s.eq_index = next_index(c, s.right_index)) THEN Panic
         ELSE IF ~(s.left_index # next_index(c, s.right_index)) THEN Panic
         ELSE [s EXCEPT !.pc = "returned",
                        !.left = s.left_index,
                        !.right = next_index(c, s.right_index)]

container_agnostic_fat_partition_step(s) ==
    LET c == s.container
        Panic == [s EXCEPT !.pc = "panicked"]
    IN
    IF s.left_part_and_eq_part_size + 1 + s.right_part_size <= s.range_size
    THEN IF s.curr_pivot_index = s.eq_index
         THEN IF ~can_next_index(c, s.eq_index) THEN Panic
              ELSE [s EXCEPT !.eq_index = next_index(c, s.eq_index),
                             !.left_part_and_eq_part_size = @ + 1]
         ELSE IF ~can_get(c, s.eq_index) \/ ~can_get(c, s.curr_pivot_index) THEN Panic
         ELSE LET ord == comparator(get(c, s.eq_index), get(c, s.curr_pivot_index)) IN
              IF ord = "Less"
              THEN IF s.left_index = s.eq_index
                   THEN IF ~can_next_index(c, s.left_index) THEN Panic
                        ELSE [s EXCEPT !.left_index = next_index(c, s.left_index),
                                       !.eq_index = next_index(c, s.eq_index),
                                       !.left_part_size = @ + 1,
                                       !.left_part_and_eq_part_size = @ + 1]
                   ELSE IF ~can_swap(c, s.eq_index, s.left_index)
                           \/ ~can_next_index(c, s.left_index)
                           \/ ~can_next_index(c, s.eq_index) THEN Panic
                        ELSE [s EXCEPT !.container = swap(c, s.eq_index, s.left_index),
                                       !.curr_pivot_index =
                                           IF s.left_index = s.curr_pivot_index
                                           THEN s.eq_index ELSE @,
                                       !.left_index = next_index(c, s.left_index),
                                       !.eq_index = next_index(c, s.eq_index),
                                       !.left_part_size = @ + 1,
                                       !.left_part_and_eq_part_size = @ + 1]
              ELSE IF ord = "Equal"
              THEN IF ~can_next_index(c, s.eq_index) THEN Panic
                   ELSE [s EXCEPT !.eq_index = next_index(c, s.eq_index),
                                  !.left_part_and_eq_part_size = @ + 1]
              ELSE IF ~can_swap(c, s.eq_index, s.right_index) THEN Panic
                   ELSE IF ~can_prev_index(c, s.right_index)
                   THEN [s EXCEPT !.container = swap(c, s.eq_index, s.right_index),
                                  !.pc = "panicked"]
                   ELSE [s EXCEPT !.container = swap(c, s.eq_index, s.right_index),
                                  !.curr_pivot_index =
                                      IF s.right_index = s.curr_pivot_index
                                      THEN s.eq_index ELSE @,
                                  !.right_index = prev_index(c, s.right_index),
                                  !.right_part_size = @ + 1]
    ELSE IF ~can_next_index(c, s.right_index) THEN Panic
         ELSE IF ~(s.eq_index = next_index(c, s.right_index)) THEN Panic
         ELSE IF ~(s.left_index # next_index(c, s.right_index)) THEN Panic
         ELSE [s EXCEPT !.pc = "returned",
                        !.left = s.left_index,
                        !.right = next_index(c, s.right_index)]

RECURSIVE container_agnostic_fat_partition(_)
container_agnostic_fat_partition(s) ==
    IF s.pc # "loop" THEN s
    ELSE container_agnostic_fat_partition(container_agnostic_fat_partition_step(s))

\* a call returns [container, panicked]
RECURSIVE container_agnostic_quick_sort(_, _, _, _)
container_agnostic_quick_sort(container, range_begin, range_end_exclusive, range_size) ==
    LET Ok(c) == [container |-> c, panicked |-> FALSE]
        Panic(c) == [container |-> c, panicked |-> TRUE]
    IN
    IF range_size <= 1 THEN Ok(container)
    ELSE IF range_size = 2
    THEN IF ~can_next_index(container, range_begin) THEN Panic(container)
         ELSE LET i0 == range_begin
                  i1 == next_index(container, range_begin)
              IN IF ~can_get(container, i0) \/ ~can_get(container, i1)
                 THEN Panic(container)
                 ELSE IF comparator(get(container, i0), get(container, i1)) = "Greater"
                 THEN IF can_swap(container, i0, i1)
                      THEN Ok(swap(container, i0, i1))
                      ELSE Panic(container)
                 ELSE Ok(container)
    ELSE IF ~can_select_pivot_index(container, range_begin, range_end_exclusive)
    THEN Panic(container)
    ELSE LET initial_pivot_index ==
                 select_pivot_index(container, range_begin, range_end_exclusive)
             p == container_agnostic_fat_partition(
                      container_agnostic_fat_partition_enter(
                          container, range_begin, range_end_exclusive,
                          initial_pivot_index, range_size))
         IN IF p.pc = "panicked" THEN Panic(p.container)
            ELSE LET first == container_agnostic_quick_sort(
                                  p.container, range_begin, p.left, p.left_part_size)
                 IN IF first.panicked THEN first
                    ELSE container_agnostic_quick_sort(
                             first.container, p.right, range_end_exclusive,
                             p.right_part_size)


(***************************************************************************)
(* quick_sort/lazy_quick_sort.rs                                           *)
(***************************************************************************)
Unsorted == [state |-> "Unsorted"]

FullySorted == [state |-> "FullySorted"]

PartiallySorted(partial_sort_data) ==
    [state |-> "PartiallySorted",
     partition_left |-> partial_sort_data.partition_left,
     partition_right |-> partial_sort_data.partition_right,
     left_child |-> partial_sort_data.left_child,
     right_child |-> partial_sort_data.right_child]

\* which child a query descends into: the if / else-if / else of both arms
\* upper test written with > instead of >=
child_of_target_skips_partition_right(target_index, partition_left, partition_right) ==
    IF target_index < partition_left THEN "left"
    ELSE IF target_index > partition_right THEN "right"
    ELSE "equal"

child_of_target(target_index, partition_left, partition_right) ==
    IF target_index < partition_left THEN "left"
    ELSE IF target_index >= partition_right THEN "right"
    ELSE "equal"

\* the node is left Unsorted after its range was partitioned
node_after_partition_not_recorded(partial_sort_data) == Unsorted

\* *node = NodeState::PartiallySorted(Box::new(partial_sort_data))
node_after_partition(partial_sort_data) == PartiallySorted(partial_sort_data)

\* the node is marked fully sorted as soon as one child is
promote_on_one_child(n) ==
    IF n.left_child.state = "FullySorted" \/ n.right_child.state = "FullySorted"
    THEN FullySorted ELSE n

\* If both childs are sorted, mark the node as fully sorted.
promote(n) ==
    IF n.left_child.state = "FullySorted" /\ n.right_child.state = "FullySorted"
    THEN FullySorted ELSE n

\* a call returns the node and the array as it leaves them, the number of fat
\* partitions and of two-element swaps it performed, and whether it panicked
RECURSIVE ensure_sorted(_, _, _, _, _)
ensure_sorted(node, target_index, range_left, range_right_exclusive, arr) ==
    LET len == range_right_exclusive - range_left
        Res(n, a, parts, swaps) ==
            [node |-> n, arr |-> a, partitions |-> parts, swaps |-> swaps,
             panicked |-> FALSE]
        Panic == [node |-> node, arr |-> arr, partitions |-> 0, swaps |-> 0,
                  panicked |-> TRUE]
    IN
    IF ~(len > 0) \/ range_right_exclusive > Len(arr) THEN Panic
    ELSE IF len = 1 THEN Res(FullySorted, arr, 0, 0)
    ELSE IF len = 2
    THEN IF node.state = "FullySorted" THEN Res(node, arr, 0, 0)
         ELSE IF comparator(At(arr, range_left), At(arr, range_left + 1)) = "Greater"
         THEN Res(FullySorted, Swap(arr, range_left, range_left + 1), 0, 1)
         ELSE Res(FullySorted, arr, 0, 0)
    ELSE IF node.state = "Unsorted"
    THEN LET sub == Slice(arr, range_left, range_right_exclusive)
             pivot_index == median_of_three_pivot(sub)
             p == fat_partition_no_clone_required(
                      fat_partition_no_clone_required_enter(sub, pivot_index))
             arr1 == Slice(arr, 0, range_left) \o p.arr
                        \o Slice(arr, range_right_exclusive, Len(arr))
             partition_left == range_left + p.left_index
             partition_right == range_left + p.eq_index
             partial_sort_data ==
                 [partition_left |-> partition_left,
                  partition_right |-> partition_right,
                  left_child |-> Unsorted, right_child |-> Unsorted]
             side == child_of_target(target_index, partition_left, partition_right)
         IN IF p.pc = "panicked" THEN Panic
            ELSE IF side = "left"
            THEN LET c == ensure_sorted(partial_sort_data.left_child, target_index,
                                        range_left, partition_left, arr1)
                 IN IF c.panicked THEN Panic
                    ELSE Res(node_after_partition(
                                 [partial_sort_data EXCEPT !.left_child = c.node]),
                             c.arr, c.partitions + 1, c.swaps)
            ELSE IF side = "right"
            THEN LET c == ensure_sorted(partial_sort_data.right_child, target_index,
                                        partition_right, range_right_exclusive, arr1)
                 IN IF c.panicked THEN Panic
                    ELSE Res(node_after_partition(
                                 [partial_sort_data EXCEPT !.right_child = c.node]),
                             c.arr, c.partitions + 1, c.swaps)
            ELSE Res(node_after_partition(partial_sort_data), arr1, 1, 0)
    ELSE IF node.state = "PartiallySorted"
    THEN LET side == child_of_target(target_index, node.partition_left,
                                     node.partition_right)
         IN IF side = "left"
            THEN LET c == ensure_sorted(node.left_child, target_index,
                                        range_left, node.partition_left, arr)
                 IN IF c.panicked THEN Panic
                    ELSE Res(promote([node EXCEPT !.left_child = c.node]),
                             c.arr, c.partitions, c.swaps)
            ELSE IF side = "right"
            THEN LET c == ensure_sorted(node.right_child, target_index,
                                        node.partition_right, range_right_exclusive, arr)
                 IN IF c.panicked THEN Panic
                    ELSE Res(promote([node EXCEPT !.right_child = c.node]),
                             c.arr, c.partitions, c.swaps)
            ELSE Res(node, arr, 0, 0)
    ELSE Res(node, arr, 0, 0)

LazyQuickSorter_new(arr) ==
    [input |-> arr, arr |-> arr, root_node |-> Unsorted, history |-> <<>>]

InitLazy ==
    /\ mg = MgIdle
    /\ kq = KqIdle
    /\ pf = PfIdle
    /\ sp = SpIdle
    /\ ca = CaIdle
    /\ ll = LlIdle
    /\ hp = HpIdle
    /\ hr = HrIdle
    /\ fp = FpIdle
    /\ srt = SrtIdle
    /\ ev = EvIdle
    /\ cms = CmsIdle
    /\ \E keys \in UNION {[1..n -> 1..MaxKeyL] : n \in 1..MaxLenL} :
          lq = LazyQuickSorter_new(MkArr(keys))

\* LazyQuickSorter::at(index); history keeps the last two calls, newest first
LazyAt(index) ==
    /\ LET r == ensure_sorted(lq.root_node, index, 0, Len(lq.arr), lq.arr)
           call == [index |-> index, panicked |-> r.panicked,
                    ret |-> At(r.arr, index),
                    partitions |-> r.partitions, swaps |-> r.swaps,
                    before |-> lq.arr]
       IN lq' = [lq EXCEPT !.arr = r.arr, !.root_node = r.node,
                           !.history = <<call>> \o SubSeq(lq.history, 1,
                                                  IF Len(lq.history) >= 1 THEN 1 ELSE 0)]
    /\ UNCHANGED <<fp, srt, ev, cms, kq, pf, sp, ca, ll, hp, hr, mg>>

NextLazy == \E index \in 0..(Len(lq.arr) - 1) : LazyAt(index)

SpecLazy == InitLazy /\ [][NextLazy]_vars


(***************************************************************************)
(* functional/lazy_eval.rs                                                 *)
(* A call of an evaluator threads the state st = [cache, invoke_count,     *)
(* invoked] through the recursion and returns [value, st]; invoked[x]      *)
(* counts the entries of the open form with input x.                       *)
(***************************************************************************)
\* impl Cache<usize, Value> for Vec<Option<Value>>
get_from_cache(cache, key) ==
    LET index == key IN
    IF index >= Len(cache) THEN None ELSE At(cache, index)

\* the slot is grown but the value is not stored
put_to_cache_not_stored(cache, key, value) ==
    LET index == key IN
    IF index >= Len(cache)
    THEN cache \o [i \in 1..(index + 1 - Len(cache)) |-> None]
    ELSE cache

put_to_cache(cache, key, value) ==
    LET index == key
        grown == IF index >= Len(cache)
                 THEN cache \o [i \in 1..(index + 1 - Len(cache)) |-> None]
                 ELSE cache
    IN [grown EXCEPT ![index + 1] = Some(value)]

\* calling the closure |input| self.eval(input) an evaluator hands to the open
\* form; recursion names the evaluator that built it
RECURSIVE recursion_call(_, _, _)

\* impl FuncHavingFixedPointMut<usize, usize> for FibonacciFunc
FibonacciFunc_eval(recursion, st, input) ==
    LET st1 == [st EXCEPT !.invoke_count = @ + 1, !.invoked[input] = @ + 1] IN
    IF input = 0 THEN [value |-> 0, st |-> st1]
    ELSE IF input = 1 THEN [value |-> 1, st |-> st1]
    ELSE LET a == recursion_call(recursion, st1, input - 1)
             b == recursion_call(recursion, a.st, input - 2)
         IN [value |-> a.value + b.value, st |-> b.st]

SimpleFixedPointApplyFunc_eval(st, input) ==
    FibonacciFunc_eval("SimpleFixedPointApplyFunc", st, input)

LazyEvalFixedPointApplyFunc_eval(st, input) ==
    LET cache_query_result == get_from_cache(st.cache, input) IN
    IF cache_query_result # None
    THEN [value |-> Unwrap(cache_query_result), st |-> st]
    ELSE LET r == FibonacciFunc_eval("LazyEvalFixedPointApplyFunc", st, input)
             new_value == r.value
         IN [value |-> new_value,
             st |-> [r.st EXCEPT !.cache = put_to_cache(@, input, new_value)]]

recursion_call(recursion, st, input) ==
    IF recursion = "SimpleFixedPointApplyFunc"
    THEN SimpleFixedPointApplyFunc_eval(st, input)
    ELSE LazyEvalFixedPointApplyFunc_eval(st, input)

\* FibonacciFunc { invoke_count: Cell::new(0) } with an empty Vec cache
FreshEvalState ==
    [cache |-> <<>>, invoke_count |-> 0, invoked |-> [x \in 0..MaxInput |-> 0]]

NoCall == [input |-> 0, value |-> 0, invoke_count |-> 0, was_cached |-> FALSE,
           called |-> FALSE]

InitEval ==
    /\ mg = MgIdle
    /\ kq = KqIdle
    /\ pf = PfIdle
    /\ sp = SpIdle
    /\ ca = CaIdle
    /\ ll = LlIdle
    /\ hp = HpIdle
    /\ hr = HrIdle
    /\ fp = FpIdle
    /\ srt = SrtIdle
    /\ lq = LqIdle
    /\ ev = [lazy |-> FreshEvalState, last |-> NoCall, simple |-> NoCall]
    /\ cms = CmsIdle

\* lazy_eval_fixed_point_apply_func(&input) on the one memoizing evaluator
LazyEval(input) ==
    /\ LET r == LazyEvalFixedPointApplyFunc_eval(ev.lazy, input)
       IN ev' = [ev EXCEPT
                    !.lazy = r.st,
                    !.last = [input |-> input, value |-> r.value,
                              invoke_count |-> r.st.invoke_count - ev.lazy.invoke_count,
                              was_cached |-> get_from_cache(ev.lazy.cache, input) # None,
                              called |-> TRUE]]
    /\ UNCHANGED <<fp, srt, lq, cms, kq, pf, sp, ca, ll, hp, hr, mg>>

\* simple_fixed_point_apply_func(&input) on a FibonacciFunc of its own
SimpleEval(input) ==
    /\ LET r == SimpleFixedPointApplyFunc_eval(FreshEvalState, input)
       IN ev' = [ev EXCEPT
                    !.simple = [input |-> input, value |-> r.value,
                                invoke_count |-> r.st.invoke_count,
                                was_cached |-> FALSE, called |-> TRUE]]
    /\ UNCHANGED <<fp, srt, lq, cms, kq, pf, sp, ca, ll, hp, hr, mg>>

NextEval ==
    \/ \E input \in 0..MaxInput : LazyEval(input)
    \/ \E input \in 0..MaxInput : SimpleEval(input)

SpecEval == InitEval /\ [][NextEval]_vars


(***************************************************************************)
(* data_structure/binary_heap.rs : MyMinHeap as the k-way merge builds it, *)
(* over heap_comparator.  The heap is its data vector.                     *)
(***************************************************************************)
\* merge.rs: the comparator merge_multiple_sorted_sequences_smart builds its
\* heap with; a heap entry is [element, arr_index]
\* the tie between Equal elements is not broken by the source sequence
heap_comparator_without_arr_index(e1, e2) ==
    comparator(e1.element, e2.element)

heap_comparator(e1, e2) ==
    LET by_element == comparator(e1.element, e2.element) IN
    IF by_element # "Equal" THEN by_element
    ELSE IF e1.arr_index < e2.arr_index THEN "Less"
    ELSE IF e1.arr_index > e2.arr_index THEN "Greater"
    ELSE "Equal"

left_child_index(index) == 2 * index + 1

right_child_index(index) == 2 * index + 2

parent_index(index) == (index - 1) \div 2

has_node(data, index) == index < Len(data)

RECURSIVE sift_down(_, _)
sift_down(data, curr_parent) ==
    LET left_child == left_child_index(curr_parent)
        right_child == right_child_index(curr_parent)
        min1 == IF has_node(data, left_child)
                   /\ heap_comparator(At(data, left_child), At(data, curr_parent)) = "Less"
                THEN left_child ELSE curr_parent
        min_index == IF has_node(data, right_child)
                        /\ heap_comparator(At(data, right_child), At(data, min1)) = "Less"
                     THEN right_child ELSE min1
    IN IF min_index = curr_parent THEN data
       ELSE sift_down(Swap(data, curr_parent, min_index), min_index)

RECURSIVE sift_up(_, _)
sift_up(data, curr_index) ==
    IF curr_index = 0 THEN data
    ELSE LET parent == parent_index(curr_index) IN
         IF heap_comparator(At(data, parent), At(data, curr_index)) = "Greater"
         THEN sift_up(Swap(data, parent, curr_index), parent)
         ELSE data

heap_insert(data, value) ==
    LET pushed == Append(data, value) IN
    sift_up(pushed, Len(pushed) - 1)

\* Vec::swap_remove(0): the last element takes the place of the first
swap_remove_first(data) ==
    IF Len(data) = 1 THEN <<>>
    ELSE <<data[Len(data)]>> \o SubSeq(data, 2, Len(data) - 1)

\* the element moved to the root is left where swap_remove put it
take_min_without_sift_down(data) ==
    IF data = <<>> THEN [min |-> None, data |-> data]
    ELSE [min |-> Some(data[1]), data |-> swap_remove_first(data)]

\* take_min yields [min, data]; min is None on an empty heap
take_min(data) ==
    IF data = <<>> THEN [min |-> None, data |-> data]
    ELSE LET removed == swap_remove_first(data) IN
         [min |-> Some(data[1]),
          data |-> IF removed # <<>> THEN sift_down(removed, 0) ELSE removed]

(***************************************************************************)
(* merge_sort/merge.rs : merge_multiple_sorted_sequences_smart, one loop   *)
(* iteration at a time.                                                    *)
(***************************************************************************)
\* the initialisation loop over arrs.iter().enumerate(), from arr_index on
RECURSIVE merge_multiple_init(_, _, _)
merge_multiple_init(arrs, arr_index, m) ==
    IF arr_index >= Len(arrs) THEN m
    ELSE IF At(arrs, arr_index) # <<>>
    THEN merge_multiple_init(arrs, arr_index + 1,
             [m EXCEPT !.min_heap = heap_insert(@,
                                       [element |-> At(At(arrs, arr_index), 0),
                                        arr_index |-> arr_index]),
                       !.indices[arr_index + 1] = 1])
    ELSE merge_multiple_init(arrs, arr_index + 1, m)

\* state on reaching the loop; the assert on arrs.len() may panic first
merge_multiple_sorted_sequences_smart_enter(arrs) ==
    IF Len(arrs) < 2
    THEN [pc |-> "panicked", arrs |-> arrs, indices |-> <<>>, min_heap |-> <<>>,
          placing_index |-> 0]
    ELSE merge_multiple_init(arrs, 0,
             [pc |-> "loop", arrs |-> arrs, indices |-> [i \in 1..Len(arrs) |-> 0],
              min_heap |-> <<>>, placing_index |-> 0])

\* one iteration: [m, emitted], emitted being None or Some(<<index, element>>)
\* handed to result_consumer
merge_multiple_sorted_sequences_smart_step(m) ==
    LET taken == take_min(m.min_heap) IN
    IF taken.min = None
    THEN [m |-> [m EXCEPT !.pc = "returned"], emitted |-> None]
    ELSE LET min == Unwrap(taken.min)
             arr_index == min.arr_index
             next_idx == At(m.indices, arr_index)
             more == next_idx < Len(At(m.arrs, arr_index))
         IN [m |-> [m EXCEPT
                      !.placing_index = @ + 1,
                      !.min_heap = IF more
                                   THEN heap_insert(taken.data,
                                            [element |-> At(At(m.arrs, arr_index), next_idx),
                                             arr_index |-> arr_index])
                                   ELSE taken.data,
                      !.indices[arr_index + 1] = IF more THEN next_idx + 1 ELSE @],
             emitted |-> Some(<<m.placing_index, min.element>>)]

(***************************************************************************)
(* merge_sort/concurrent_merge_sort.rs : RangePartition.  A partition is   *)
(* [endpoints, panicked]; panicked records a failed assert of              *)
(* from_endpoints.                                                         *)
(***************************************************************************)
from_endpoints(endpoints) ==
    [endpoints |-> endpoints,
     panicked |-> ~(/\ Len(endpoints) >= 2
                    /\ \A i \in 1..(Len(endpoints) - 1) :
                          At(endpoints, i) >= At(endpoints, i - 1))]

RECURSIVE SumSizes(_, _)
SumSizes(part_sizes, n) ==
    IF n = 0 THEN 0 ELSE SumSizes(part_sizes, n - 1) + part_sizes[n]

from_part_sizes(part_sizes, start_index) ==
    [endpoints |-> [i \in 1..(Len(part_sizes) + 1) |->
                       start_index + SumSizes(part_sizes, i - 1)],
     panicked |-> FALSE]

part_num(p) == Len(p.endpoints) - 1

part_start(p, part_index) == At(p.endpoints, part_index)

part_end_exclusive(p, part_index) == At(p.endpoints, part_index + 1)

part_length(p, part_index) == part_end_exclusive(p, part_index) - part_start(p, part_index)

total_start_index(p) == part_start(p, 0)

total_end_index_exclusive(p) == part_end_exclusive(p, part_num(p) - 1)

total_range_len(p) == total_end_index_exclusive(p) - total_start_index(p)

\* the part length is rounded up
evenly_partition_rounded_up(r_start, r_end, part_count) ==
    LET part_len == (r_end - r_start + part_count - 1) \div part_count IN
    from_endpoints([i \in 1..part_count |-> r_start + (i - 1) * part_len] \o <<r_end>>)

evenly_partition(r_start, r_end, part_count) ==
    LET part_len == (r_end - r_start) \div part_count IN
    from_endpoints([i \in 1..part_count |-> r_start + (i - 1) * part_len] \o <<r_end>>)

\* the position binary_search_by reports is returned as it is
binary_search_leftmost_any_match(arr, target) ==
    {r.index : r \in binary_search_by(arr, target)}

\* the leftmost position of target in a sorted slice, or its insertion index;
\* one result per result binary_search_by may report
RECURSIVE binary_search_leftmost(_, _)
binary_search_leftmost(arr, target) ==
    UNION { IF r.ok
            THEN IF r.index = 0 THEN {r.index}
                 ELSE IF comparator(At(arr, r.index - 1), target) # "Equal" THEN {r.index}
                 ELSE binary_search_leftmost(Slice(arr, 0, r.index), target)
            ELSE {r.index}
            : r \in binary_search_by(arr, target) }

\* the position found in the searched sub-slice is pushed as it is
RECURSIVE find_partition_loop_no_offset(_, _, _, _, _, _)
find_partition_loop_no_offset(arr, curr_start, range_end, pivots, k, endpoints) ==
    IF k > Len(pivots) THEN {Append(endpoints, range_end)}
    ELSE UNION { find_partition_loop_no_offset(arr, curr_start + pivot_pos, range_end, pivots,
                                               k + 1, Append(endpoints, pivot_pos))
                 : pivot_pos \in binary_search_leftmost(Slice(arr, curr_start, range_end),
                                                        pivots[k]) }

\* the loop over the pivots from pivot k on; curr_start is
\* curr_searching_range.start; yields every endpoints vector the loop may build
RECURSIVE find_partition_loop(_, _, _, _, _, _)
find_partition_loop(arr, curr_start, range_end, pivots, k, endpoints) ==
    IF k > Len(pivots) THEN {Append(endpoints, range_end)}
    ELSE UNION { find_partition_loop(arr, curr_start + pivot_pos, range_end, pivots, k + 1,
                                     Append(endpoints, curr_start + pivot_pos))
                 : pivot_pos \in binary_search_leftmost(Slice(arr, curr_start, range_end),
                                                        pivots[k]) }

find_partition_by_pivots(arr, range_start, range_end, pivots) ==
    { from_endpoints(e) :
        e \in find_partition_loop(arr, range_start, range_end, pivots, 1, <<range_start>>) }


(***************************************************************************)
(* merge_sort/concurrent_merge_sort.rs : concurrent_merge_sort.  The main  *)
(* thread's serial steps and each worker's steps are separate actions; a   *)
(* crossbeam scope ends when all the workers it spawned have finished.     *)
(***************************************************************************)
\* a slot of a temporary buffer that alloc returned and nothing was copied to
Uninit == <<0, 0>>

Workers(c) == 0..(c.parallelism - 1)

NoPartition == [endpoints |-> <<>>, panicked |-> FALSE]

NoMerge == [pc |-> "idle", arrs |-> <<>>, indices |-> <<>>, min_heap |-> <<>>,
            placing_index |-> 0]

CmsCall(arr, parallelism) ==
    [pc |-> "called", path |-> "none", input |-> arr, arr |-> arr,
     parallelism |-> parallelism,
     outer_partition |-> NoPartition, sorted |-> {}, pivots |-> <<>>,
     sub_partitions |-> <<>>, temp_partitions |-> <<>>,
     result_partitions |-> NoPartition, temps |-> <<>>, merges |-> <<>>]

\* arr with arr[from..from + Len(part)] replaced by part
ReplaceSlice(arr, from, part) ==
    [j \in 1..Len(arr) |-> IF j > from /\ j <= from + Len(part) THEN part[j - from] ELSE arr[j]]

\* ptr::copy_nonoverlapping(src_arr + src, buf + dst, len)
copy_nonoverlapping(buf, dst, src_arr, src, len) ==
    [j \in 1..Len(buf) |-> IF j > dst /\ j <= dst + len THEN src_arr[src + (j - dst)] ELSE buf[j]]

\* pivots[i] = first_part[first_part_pivot_partitions.endpoints[i + 1]]
select_pivots(first_part, first_part_pivot_partitions, parallelism) ==
    [i \in 1..(parallelism - 1) |-> At(first_part, At(first_part_pivot_partitions.endpoints, i))]

pivots_in_bounds(first_part, first_part_pivot_partitions, parallelism) ==
    \A i \in 1..(parallelism - 1) :
        At(first_part_pivot_partitions.endpoints, i) < Len(first_part)

\* the sub_partitions vectors the loop over thread_index 1..parallelism may build
RECURSIVE sub_partitions_from(_, _, _, _, _)
sub_partitions_from(arr, outer_partition, pivots, thread_index, acc) ==
    IF thread_index >= part_num(outer_partition) THEN {acc}
    ELSE UNION { sub_partitions_from(arr, outer_partition, pivots, thread_index + 1,
                                     Append(acc, part_partition))
                 : part_partition \in
                     find_partition_by_pivots(arr, part_start(outer_partition, thread_index),
                         part_end_exclusive(outer_partition, thread_index), pivots) }

\* the two indices of sub_partitions are exchanged
temp_partitions_of_transposed(sub_partitions, parallelism) ==
    [t \in 1..parallelism |->
        from_part_sizes([i \in 1..parallelism |-> part_length(sub_partitions[t], i - 1)], 0)]

temp_partitions_of(sub_partitions, parallelism) ==
    [t \in 1..parallelism |->
        from_part_sizes([i \in 1..parallelism |-> part_length(sub_partitions[i], t - 1)], 0)]

\* the regions are laid out with the buffer sizes taken in reverse order
result_partitions_of_reversed(temp_partitions) ==
    from_part_sizes([t \in 1..Len(temp_partitions) |->
                        total_range_len(temp_partitions[Len(temp_partitions) + 1 - t])], 0)

result_partitions_of(temp_partitions) ==
    from_part_sizes([t \in 1..Len(temp_partitions) |-> total_range_len(temp_partitions[t])], 0)

\* the copy loop of one phase-4 worker over subpart_index, into its buffer
RECURSIVE copy_subparts(_, _, _, _)
copy_subparts(c, thread_index, subpart_index, temp) ==
    IF subpart_index >= c.parallelism THEN temp
    ELSE copy_subparts(c, thread_index, subpart_index + 1,
             copy_nonoverlapping(temp,
                 part_start(c.temp_partitions[thread_index + 1], subpart_index),
                 c.arr,
                 part_start(c.sub_partitions[subpart_index + 1], thread_index),
                 part_length(c.sub_partitions[subpart_index + 1], thread_index)))

\* the slices of temps[thread_index] one phase-5 worker merges
merge_srcs(c, thread_index) ==
    LET temp == Unwrap(c.temps[thread_index + 1])
        layout == c.temp_partitions[thread_index + 1]
    IN [i \in 1..c.parallelism |->
           Slice(temp, part_start(layout, i - 1), part_end_exclusive(layout, i - 1))]


\* the longer inputs, over the smallest and the largest key only
WideKeySeqs == UNION {[1..n -> {1, MaxKey}] : n \in (MaxLenC + 1)..MaxLenWide}

InitConcurrent ==
    /\ mg = MgIdle
    /\ kq = KqIdle
    /\ pf = PfIdle
    /\ sp = SpIdle
    /\ ca = CaIdle
    /\ ll = LlIdle
    /\ hp = HpIdle
    /\ hr = HrIdle
    /\ fp = FpIdle
    /\ srt = SrtIdle
    /\ lq = LqIdle
    /\ ev = EvIdle
    /\ \E keys \in KeySeqs(0, MaxLenC) \cup WideKeySeqs, parallelism \in 0..MaxPar :
          cms = CmsCall(MkArr(keys), parallelism)

\* entry up to the first scope: the assert, the two early returns (the second
\* one runs the sequential sort) and the outer partition
ConcurrentMergeSortEnter ==
    /\ cms.pc = "called"
    /\ LET len == Len(cms.arr)
           parallelism == cms.parallelism
       IN IF ~(parallelism > 0)
          THEN cms' = [cms EXCEPT !.pc = "panicked"]
          ELSE IF len <= 1
          THEN cms' = [cms EXCEPT !.pc = "returned", !.path = "trivial"]
          ELSE IF parallelism = 1 \/ len <= parallelism * SequentialCutoffPerWorker
          THEN \E r \in simple_merge_sort_inplace(cms.arr) :
                  cms' = [cms EXCEPT !.pc = IF r.panicked THEN "panicked" ELSE "returned",
                                     !.path = "sequential", !.arr = r.arr]
          ELSE LET outer_partition == evenly_partition(0, len, parallelism)
               IN cms' = [cms EXCEPT
                            !.pc = IF outer_partition.panicked THEN "panicked" ELSE "sorting",
                            !.path = "workers",
                            !.outer_partition = outer_partition]
    /\ UNCHANGED <<fp, srt, lq, ev, kq, pf, sp, ca, ll, hp, hr, mg>>

\* phase 1, one worker: simple_merge_sort_inplace on its part
SortPart(thread_index) ==
    /\ cms.pc = "sorting"
    /\ thread_index \in Workers(cms) \ cms.sorted
    /\ LET from == part_start(cms.outer_partition, thread_index)
           to == part_end_exclusive(cms.outer_partition, thread_index)
       IN \E r \in simple_merge_sort_inplace(Slice(cms.arr, from, to)) :
             cms' = [cms EXCEPT !.pc = IF r.panicked THEN "panicked" ELSE @,
                                !.arr = ReplaceSlice(@, from, r.arr),
                                !.sorted = @ \cup {thread_index}]
    /\ UNCHANGED <<fp, srt, lq, ev, kq, pf, sp, ca, ll, hp, hr, mg>>

\* the main thread after the first scope: pivots, sub_partitions,
\* temp_partitions and result_partitions
SelectPivotsAndPartition ==
    /\ cms.pc = "sorting"
    /\ cms.sorted = Workers(cms)
    /\ LET parallelism == cms.parallelism
           first_part == Slice(cms.arr, part_start(cms.outer_partition, 0),
                               part_end_exclusive(cms.outer_partition, 0))
           first_part_pivot_partitions == evenly_partition(0, Len(first_part), parallelism)
       IN IF \/ first_part_pivot_partitions.panicked
             \/ ~pivots_in_bounds(first_part, first_part_pivot_partitions, parallelism)
          THEN cms' = [cms EXCEPT !.pc = "panicked"]
          ELSE LET pivots == select_pivots(first_part, first_part_pivot_partitions, parallelism)
               IN \E sub_partitions \in sub_partitions_from(cms.arr, cms.outer_partition,
                                            pivots, 1, <<first_part_pivot_partitions>>) :
                     IF \E i \in 1..Len(sub_partitions) : sub_partitions[i].panicked
                     THEN cms' = [cms EXCEPT !.pc = "panicked"]
                     ELSE LET temp_partitions == temp_partitions_of(sub_partitions, parallelism)
                          IN cms' = [cms EXCEPT
                                       !.pc = "copying",
                                       !.pivots = pivots,
                                       !.sub_partitions = sub_partitions,
                                       !.temp_partitions = temp_partitions,
                                       !.result_partitions = result_partitions_of(temp_partitions),
                                       !.temps = [t \in 1..parallelism |-> None]]
    /\ UNCHANGED <<fp, srt, lq, ev, kq, pf, sp, ca, ll, hp, hr, mg>>

\* phase 4, one worker: allocate its buffer and copy its sub-parts into it
CopyToTemp(thread_index) ==
    /\ cms.pc = "copying"
    /\ thread_index \in Workers(cms)
    /\ cms.temps[thread_index + 1] = None
    /\ LET size == total_range_len(cms.temp_partitions[thread_index + 1])
           temp == copy_subparts(cms, thread_index, 0, [j \in 1..size |-> Uninit])
       IN cms' = [cms EXCEPT !.temps[thread_index + 1] = Some(temp)]
    /\ UNCHANGED <<fp, srt, lq, ev, kq, pf, sp, ca, ll, hp, hr, mg>>

\* the main thread after the second scope: spawn the merging workers; each
\* starts merge_multiple_sorted_sequences_smart on the slices of its buffer
SpawnMerges ==
    /\ cms.pc = "copying"
    /\ \A t \in 1..cms.parallelism : cms.temps[t] # None
    /\ LET merges == [t \in 1..cms.parallelism |->
                         merge_multiple_sorted_sequences_smart_enter(merge_srcs(cms, t - 1))]
       IN cms' = [cms EXCEPT
                    !.pc = IF \E t \in 1..cms.parallelism : merges[t].pc = "panicked"
                           THEN "panicked" ELSE "merging",
                    !.merges = merges]
    /\ UNCHANGED <<fp, srt, lq, ev, kq, pf, sp, ca, ll, hp, hr, mg>>

\* phase 5, one worker, one iteration of its merge loop; the consumer asserts
\* index < merge_region_len and writes the element to merge_dst + index
MergeStep(thread_index) ==
    /\ cms.pc = "merging"
    /\ thread_index \in Workers(cms)
    /\ cms.merges[thread_index + 1].pc = "loop"
    /\ LET r == merge_multiple_sorted_sequences_smart_step(cms.merges[thread_index + 1])
           merge_dst == part_start(cms.result_partitions, thread_index)
           merge_region_len == part_length(cms.result_partitions, thread_index)
       IN IF r.emitted = None
          THEN cms' = [cms EXCEPT !.merges[thread_index + 1] = r.m]
          ELSE LET index == Unwrap(r.emitted)[1]
                   element == Unwrap(r.emitted)[2]
               IN IF ~(index < merge_region_len)
                  THEN cms' = [cms EXCEPT !.pc = "panicked"]
                  ELSE cms' = [cms EXCEPT !.merges[thread_index + 1] = r.m,
                                          !.arr[merge_dst + index + 1] = element]
    /\ UNCHANGED <<fp, srt, lq, ev, kq, pf, sp, ca, ll, hp, hr, mg>>

\* the buffers are freed without waiting for the third scope to end
FreeTempsAndReturn_without_join ==
    /\ cms.pc = "merging"
    /\ cms' = [cms EXCEPT !.pc = "returned",
                          !.temps = [t \in 1..cms.parallelism |-> None]]
    /\ UNCHANGED <<fp, srt, lq, ev, kq, pf, sp, ca, ll, hp, hr, mg>>

\* the main thread after the third scope: free the buffers and return
FreeTempsAndReturn ==
    /\ cms.pc = "merging"
    /\ \A t \in 1..cms.parallelism : cms.merges[t].pc = "returned"
    /\ cms' = [cms EXCEPT !.pc = "returned",
                          !.temps = [t \in 1..cms.parallelism |-> None]]
    /\ UNCHANGED <<fp, srt, lq, ev, kq, pf, sp, ca, ll, hp, hr, mg>>

NextConcurrent ==
    \/ ConcurrentMergeSortEnter
    \/ \E thread_index \in 0..(MaxPar - 1) : SortPart(thread_index)
    \/ SelectPivotsAndPartition
    \/ \E thread_index \in 0..(MaxPar - 1) : CopyToTemp(thread_index)
    \/ SpawnMerges
    \/ \E thread_index \in 0..(MaxPar - 1) : MergeStep(thread_index)
    \/ FreeTempsAndReturn

SpecConcurrent == InitConcurrent /\ [][NextConcurrent]_vars


(***************************************************************************)
(* sort/lazy_quick_sort.rs : the LazyQuickSorter driven by a sort-key      *)
(* extractor.  extract_sort_key is Key.  A usize subtraction below zero    *)
(* panics in a debug build and wraps in a release build, where the next    *)
(* slice access with the wrapped index panics: both are a panic here.      *)
(***************************************************************************)
KeyPartiallySorted(partial_sort_data) ==
    [state |-> "PartiallySorted",
     pivot_index |-> partial_sort_data.pivot_index,
     left_child |-> partial_sort_data.left_child,
     right_child |-> partial_sort_data.right_child]

\* while extract_sort_key(&arr[left_index]) < extract_sort_key(&arr[pivot_index])
RECURSIVE key_scan_left(_, _, _)
key_scan_left(arr, left_index, pivot_index) ==
    IF left_index >= Len(arr) THEN [index |-> left_index, panicked |-> TRUE]
    ELSE IF Key(At(arr, left_index)) < Key(At(arr, pivot_index))
    THEN key_scan_left(arr, left_index + 1, pivot_index)
    ELSE [index |-> left_index, panicked |-> FALSE]

\* while extract_sort_key(&arr[right_index]) > extract_sort_key(&arr[pivot_index])
RECURSIVE key_scan_right(_, _, _)
key_scan_right(arr, right_index, pivot_index) ==
    IF Key(At(arr, right_index)) > Key(At(arr, pivot_index))
    THEN IF right_index = 0 THEN [index |-> right_index, panicked |-> TRUE]
         ELSE key_scan_right(arr, right_index - 1, pivot_index)
    ELSE [index |-> right_index, panicked |-> FALSE]

\* the outer while loop of partition_around_pivot
RECURSIVE partition_around_pivot_loop(_, _, _, _)
partition_around_pivot_loop(arr, left_index, right_index, pivot_index) ==
    IF ~(left_index < right_index) THEN Returned(arr)
    ELSE LET l == key_scan_left(arr, left_index, pivot_index) IN
         IF l.panicked THEN Panicked(arr)
         ELSE LET r == key_scan_right(arr, right_index, pivot_index) IN
              IF r.panicked THEN Panicked(arr)
              ELSE IF l.index <= r.index
              THEN LET swapped == Swap(arr, l.index, r.index) IN
                   IF r.index = 0 THEN Panicked(swapped)
                   ELSE partition_around_pivot_loop(swapped, l.index + 1, r.index - 1,
                                                    pivot_index)
              ELSE partition_around_pivot_loop(arr, l.index, r.index, pivot_index)

partition_around_pivot(pivot_index, range_left, range_right_exclusive, arr) ==
    partition_around_pivot_loop(arr, range_left, range_right_exclusive - 1, pivot_index)

\* FullySorted when both children are, else the node given
key_promote(partial_sort_data, otherwise) ==
    IF /\ partial_sort_data.left_child = FullySorted
       /\ partial_sort_data.right_child = FullySorted
    THEN FullySorted
    ELSE otherwise

\* ensure_sorted yields [node, arr, panicked]
RECURSIVE key_ensure_sorted(_, _, _, _, _)
key_ensure_sorted(node, target_index, range_left, range_right_exclusive, arr) ==
    IF range_right_exclusive < range_left
    THEN [node |-> node, arr |-> arr, panicked |-> TRUE]
    ELSE IF range_right_exclusive - range_left <= 1
    THEN [node |-> FullySorted, arr |-> arr, panicked |-> FALSE]
    ELSE IF node.state = "FullySorted"
    THEN [node |-> node, arr |-> arr, panicked |-> FALSE]
    ELSE LET fresh == node.state = "Unsorted"
             pivot_index == IF fresh
                            THEN range_left + (range_right_exclusive - range_left) \div 2
                            ELSE node.pivot_index
             p == IF fresh
                  THEN partition_around_pivot(pivot_index, range_left,
                                              range_right_exclusive, arr)
                  ELSE Returned(arr)
             left_child == IF fresh THEN Unsorted ELSE node.left_child
             right_child == IF fresh THEN Unsorted ELSE node.right_child
         IN IF p.panicked THEN [node |-> node, arr |-> p.arr, panicked |-> TRUE]
            ELSE LET go_left == target_index <= pivot_index
                     c == IF go_left
                          THEN key_ensure_sorted(left_child, target_index, range_left,
                                                 pivot_index, p.arr)
                          ELSE key_ensure_sorted(right_child, target_index, pivot_index + 1,
                                                 range_right_exclusive, p.arr)
                     partial_sort_data ==
                         [pivot_index |-> pivot_index,
                          left_child |-> IF go_left THEN c.node ELSE left_child,
                          right_child |-> IF go_left THEN right_child ELSE c.node]
                 IN [node |-> key_promote(partial_sort_data,
                                          KeyPartiallySorted(partial_sort_data)),
                     arr |-> c.arr, panicked |-> c.panicked]

KeyNoCall == [index |-> 0, panicked |-> FALSE, ret |-> <<0, 0>>, called |-> FALSE]

KeyLazyQuickSorter_new(arr) ==
    [pc |-> "ready", input |-> arr, arr |-> arr, root_node |-> Unsorted,
     calls |-> 0, last |-> KeyNoCall]

InitKeyLazy ==
    /\ mg = MgIdle
    /\ fp = FpIdle
    /\ srt = SrtIdle
    /\ lq = LqIdle
    /\ ev = EvIdle
    /\ cms = CmsIdle
    /\ pf = PfIdle
    /\ sp = SpIdle
    /\ ca = CaIdle
    /\ ll = LlIdle
    /\ hp = HpIdle
    /\ hr = HrIdle
    /\ \E keys \in KeySeqs(1, MaxLenK) : kq = KeyLazyQuickSorter_new(MkArr(keys))

\* LazyQuickSorter::at(index); a panic ends the sorter's use
KeyLazyAt(index) ==
    /\ kq.pc = "ready"
    /\ LET r == key_ensure_sorted(kq.root_node, index, 0, Len(kq.arr), kq.arr)
       IN kq' = [kq EXCEPT
                    !.pc = IF r.panicked THEN "panicked" ELSE "ready",
                    !.arr = r.arr,
                    !.root_node = r.node,
                    !.calls = IF @ < 2 THEN @ + 1 ELSE @,
                    !.last = [index |-> index, panicked |-> r.panicked,
                              ret |-> At(r.arr, index), called |-> TRUE]]
    /\ UNCHANGED <<fp, srt, lq, ev, cms, pf, sp, ca, ll, hp, hr, mg>>

NextKeyLazy == \E index \in 0..(Len(kq.arr) - 1) : KeyLazyAt(index)

SpecKeyLazy == InitKeyLazy /\ [][NextKeyLazy]_vars


(***************************************************************************)
(* Single calls of binary_search_leftmost, of the RangePartition           *)
(* constructors and of median_of_three_pivot.  A call is a record of the   *)
(* function's name, its arguments and, once it has run, its result.        *)
(***************************************************************************)
PfCall(fn, arr, target, range_start, range_end, pivots, part_count) ==
    [pc |-> "called", fn |-> fn, arr |-> arr, target |-> target,
     range_start |-> range_start, range_end |-> range_end, pivots |-> pivots,
     part_count |-> part_count, ret |-> None]

SortedKeySeqs(lo, hi) ==
    {keys \in KeySeqs(lo, hi) : \A i \in 1..(Len(keys) - 1) : keys[i] <= keys[i + 1]}

\* a target or pivot with key k that is no element of the slice
Probe(k) == <<k, 0>>

BinarySearchCalls ==
    { PfCall("binary_search_leftmost", MkArr(keys), Probe(k), 0, 0, <<>>, 0) :
        keys \in SortedKeySeqs(0, MaxLenB), k \in 0..(MaxKey + 1) }

\* non-decreasing pivot sequences
PivotSeqs ==
    { [i \in 1..Len(ks) |-> Probe(ks[i])] :
        ks \in {q \in UNION {[1..n -> 0..(MaxKey + 1)] : n \in 0..MaxPivots} :
                  \A i \in 1..(Len(q) - 1) : q[i] <= q[i + 1]} }

\* a sorted range, alone or with a larger element before it and a smaller one
\* after it
FindPartitionCalls ==
    { PfCall("find_partition_by_pivots", MkArr(before \o mid \o after), Probe(0),
             Len(before), Len(before) + Len(mid), pivots, 0) :
        before \in {<<>>, <<MaxKey>>}, mid \in SortedKeySeqs(0, MaxLenR),
        after \in {<<>>, <<1>>}, pivots \in PivotSeqs }

EvenlyPartitionCalls ==
    { PfCall("evenly_partition", <<>>, Probe(0), r_start, r_end, <<>>, part_count) :
        r_start \in 0..MaxRangeEnd, r_end \in 0..MaxRangeEnd, part_count \in 0..MaxParts }

MedianCalls ==
    { PfCall("median_of_three_pivot", MkArr(keys), Probe(0), 0, 0, <<>>, 0) :
        keys \in KeySeqs(0, MaxLenM) }

PfCalls ==
    BinarySearchCalls \cup FindPartitionCalls \cup EvenlyPartitionCalls \cup MedianCalls

InitPure ==
    /\ mg = MgIdle
    /\ fp = FpIdle
    /\ srt = SrtIdle
    /\ lq = LqIdle
    /\ ev = EvIdle
    /\ cms = CmsIdle
    /\ kq = KqIdle
    /\ sp = SpIdle
    /\ ca = CaIdle
    /\ ll = LlIdle
    /\ hp = HpIdle
    /\ hr = HrIdle
    /\ pf \in PfCalls

BinarySearchLeftmost ==
    /\ pf.pc = "called"
    /\ pf.fn = "binary_search_leftmost"
    /\ \E pos \in binary_search_leftmost(pf.arr, pf.target) :
          pf' = [pf EXCEPT !.pc = "returned", !.ret = pos]
    /\ UNCHANGED <<fp, srt, lq, ev, cms, kq, sp, ca, ll, hp, hr, mg>>

FindPartitionByPivots ==
    /\ pf.pc = "called"
    /\ pf.fn = "find_partition_by_pivots"
    /\ \E partition \in find_partition_by_pivots(pf.arr, pf.range_start, pf.range_end,
                                                  pf.pivots) :
          pf' = [pf EXCEPT !.pc = IF partition.panicked THEN "panicked" ELSE "returned",
                           !.ret = partition]
    /\ UNCHANGED <<fp, srt, lq, ev, cms, kq, sp, ca, ll, hp, hr, mg>>

\* r.end - r.start below zero and a division by zero panic
EvenlyPartition ==
    /\ pf.pc = "called"
    /\ pf.fn = "evenly_partition"
    /\ IF pf.range_end < pf.range_start \/ pf.part_count = 0
       THEN pf' = [pf EXCEPT !.pc = "panicked"]
       ELSE LET partition == evenly_partition(pf.range_start, pf.range_end, pf.part_count)
            IN pf' = [pf EXCEPT !.pc = IF partition.panicked THEN "panicked" ELSE "returned",
                                !.ret = partition]
    /\ UNCHANGED <<fp, srt, lq, ev, cms, kq, sp, ca, ll, hp, hr, mg>>

\* len - 1 below zero panics (or wraps, and arr[i3] then panics)
MedianOfThreePivot ==
    /\ pf.pc = "called"
    /\ pf.fn = "median_of_three_pivot"
    /\ IF pf.arr = <<>>
       THEN pf' = [pf EXCEPT !.pc = "panicked"]
       ELSE pf' = [pf EXCEPT !.pc = "returned", !.ret = median_of_three_pivot(pf.arr)]
    /\ UNCHANGED <<fp, srt, lq, ev, cms, kq, sp, ca, ll, hp, hr, mg>>

NextPure ==
    \/ BinarySearchLeftmost
    \/ FindPartitionByPivots
    \/ EvenlyPartition
    \/ MedianOfThreePivot

SpecPure == InitPure /\ [][NextPure]_vars


(***************************************************************************)
(* data_structure/dag.rs, dyn_pro/dag_shortest_path.rs : the memoized      *)
(* DagShortestPathSolver.  Nodes are 0..n-1 and an edge i -> j has i < j,  *)
(* so every graph is acyclic; edges is a function from the pairs that are  *)
(* edges to their distance.  Option<PathInfo> is None or Some(PathInfo); a *)
(* cache slot is None or Some of such a value.  Calls yield the set of     *)
(* outcomes [value, cache, panicked] the iteration order of a HashMap      *)
(* permits.                                                                *)
(***************************************************************************)
PathInfo(next_node, distance_to_destination) ==
    [next_node |-> next_node, distance_to_destination |-> distance_to_destination]

DagNodes(g) == 0..(g.n - 1)

OutNeighbours(g, src) == {dst \in DagNodes(g) : <<src, dst>> \in DOMAIN g.edges}

\* init_graph: graph.entry(src).or_insert(HashMap::new()).insert(dst, edge_data)
init_graph(g) ==
    [kind |-> "HashMapDAG",
     map |-> [src \in {n \in DagNodes(g) : OutNeighbours(g, n) # {}} |->
                 [dst \in OutNeighbours(g, src) |-> g.edges[<<src, dst>>]]]]

\* Matrix2D::new_defaulted(n, n) followed by matrix.set(src, dst, Some(distance))
init_matrix(g) ==
    [kind |-> "MatrixDAG",
     rows |-> g.n, cols |-> g.n,
     data |-> [k \in 1..(g.n * g.n) |->
                  LET src == (k - 1) \div g.n
                      dst == (k - 1) % g.n
                  IN IF <<src, dst>> \in DOMAIN g.edges
                     THEN Some(g.edges[<<src, dst>>]) ELSE None]]

\* the elements of a finite set of numbers in ascending order
RECURSIVE Ascending(_)
Ascending(S) ==
    IF S = {} THEN <<>>
    ELSE LET least == CHOOSE x \in S : \A y \in S : x <= y
         IN <<least>> \o Ascending(S \ {least})

\* HashMapDAG: self.get(&n).unwrap().iter(); MatrixDAG: the Some cells of
\* borrow_row(n).  Yields [panicked, edges], edges a sequence of
\* <<edge_data, dst>>; a HashMap may hand them out in any order, which only
\* min_by can observe.
get_edges_coming_out(traverser, n) ==
    IF traverser.kind = "HashMapDAG"
    THEN IF n \notin DOMAIN traverser.map
         THEN [panicked |-> TRUE, edges |-> <<>>]
         ELSE LET inner == traverser.map[n]
                  order == Ascending(DOMAIN inner)
              IN [panicked |-> FALSE,
                  edges |-> [k \in 1..Len(order) |-> <<inner[order[k]], order[k]>>]]
    ELSE IF ~(n < traverser.rows /\ 0 < traverser.cols)
    THEN [panicked |-> TRUE, edges |-> <<>>]
    ELSE LET start == n * traverser.cols
             order == Ascending({dst \in 0..(traverser.cols - 1) :
                                    traverser.data[start + dst + 1] # None})
         IN [panicked |-> FALSE,
             edges |-> [k \in 1..Len(order) |->
                           <<Unwrap(traverser.data[start + order[k] + 1]), order[k]>>]]

\* Iterator::min_by returns the first of several minimal elements
min_by(traverser, candidates) ==
    IF candidates = <<>> THEN {None}
    ELSE LET minimal == {k \in 1..Len(candidates) :
                            \A j \in 1..Len(candidates) :
                                candidates[k].distance_to_destination
                                    <= candidates[j].distance_to_destination}
         IN IF traverser.kind = "HashMapDAG"
            THEN {Some(candidates[k]) : k \in minimal}
            ELSE {Some(candidates[CHOOSE k \in minimal : \A j \in minimal : k <= j])}

\* LazyEvalFixedPointApplyFunc::eval over the solver, with a HashMap or a
\* Matrix2D cache
RECURSIVE path_lazy_eval(_, _, _, _)

\* the filter_map closure applied to the edges from the k-th on
RECURSIVE path_filter_map(_, _, _, _, _, _)
path_filter_map(traverser, cache, edges, k, dst, candidates) ==
    IF k > Len(edges)
    THEN {[candidates |-> candidates, cache |-> cache, panicked |-> FALSE]}
    ELSE LET edge_data == edges[k][1]
             next_node == edges[k][2]
         IN UNION { IF r.panicked
                    THEN {[candidates |-> candidates, cache |-> r.cache, panicked |-> TRUE]}
                    ELSE path_filter_map(traverser, r.cache, edges, k + 1, dst,
                             IF r.value = None THEN candidates
                             ELSE Append(candidates,
                                      PathInfo(next_node,
                                          edge_data + Unwrap(r.value).distance_to_destination)))
                    : r \in path_lazy_eval(traverser, cache, next_node, dst) }

\* impl FuncHavingFixedPointMut for DagShortestPathSolver
DagShortestPathSolver_eval(traverser, cache, src, dst) ==
    IF src = dst
    THEN {[value |-> Some(PathInfo(dst, 0)), cache |-> cache, panicked |-> FALSE]}
    ELSE LET out == get_edges_coming_out(traverser, src) IN
         IF out.panicked
         THEN {[value |-> None, cache |-> cache, panicked |-> TRUE]}
         ELSE UNION { IF f.panicked
                      THEN {[value |-> None, cache |-> f.cache, panicked |-> TRUE]}
                      ELSE {[value |-> v, cache |-> f.cache, panicked |-> FALSE] :
                               v \in min_by(traverser, f.candidates)}
                      : f \in path_filter_map(traverser, cache, out.edges, 1, dst, <<>>) }

path_lazy_eval(traverser, cache, src, dst) ==
    LET cache_query_result == cache[<<src, dst>>] IN
    IF cache_query_result # None
    THEN {[value |-> Unwrap(cache_query_result), cache |-> cache, panicked |-> FALSE]}
    ELSE { IF r.panicked THEN r
           ELSE [r EXCEPT !.cache = [r.cache EXCEPT ![<<src, dst>>] = Some(r.value)]]
           : r \in DagShortestPathSolver_eval(traverser, cache, src, dst) }

\* the graph of test_dag_shortest_path_1 and _2, nodes a, b, c, d as 0..3
TestGraph ==
    [n |-> 4,
     edges |-> (<<0, 1>> :> 1) @@ (<<0, 2>> :> 2) @@ (<<1, 2>> :> 3)
               @@ (<<1, 3>> :> 4) @@ (<<2, 3>> :> 5)]

ForwardPairs(n) == {e \in (0..(n - 1)) \X (0..(n - 1)) : e[1] < e[2]}

Dags ==
    {TestGraph} \union
    UNION { { [n |-> n, edges |-> edges] :
                edges \in UNION {[E -> 1..MaxWeight] : E \in SUBSET ForwardPairs(n)} }
            : n \in 1..MaxNodes }

\* HashMap::new() or Matrix2D::new_defaulted(n, n): no slot is filled
EmptyPathCache(g) == [key \in DagNodes(g) \X DagNodes(g) |-> None]

NoQuery == [src |-> 0, dst |-> 0, value |-> None]

InitShortestPath ==
    /\ mg = MgIdle
    /\ \E g \in Dags : \E traverser \in {init_graph(g), init_matrix(g)} :
          sp = [pc |-> "ready", graph |-> g, traverser |-> traverser,
                cache |-> EmptyPathCache(g), last |-> NoQuery]
    /\ fp = FpIdle /\ srt = SrtIdle /\ lq = LqIdle /\ ev = EvIdle
    /\ cms = CmsIdle /\ kq = KqIdle /\ pf = PfIdle /\ ca = CaIdle
    /\ ll = LlIdle /\ hp = HpIdle /\ hr = HrIdle

\* cached_solver(&(src, dst))
CachedSolverCall(src, dst) ==
    /\ sp.pc \in {"ready", "returned"}
    /\ \E r \in path_lazy_eval(sp.traverser, sp.cache, src, dst) :
          sp' = [sp EXCEPT !.pc = IF r.panicked THEN "panicked" ELSE "returned",
                           !.cache = r.cache,
                           !.last = [src |-> src, dst |-> dst, value |-> r.value]]
    /\ UNCHANGED <<fp, srt, lq, ev, cms, kq, pf, ca, ll, hp, hr, mg>>

NextShortestPath ==
    \E src \in DagNodes(sp.graph) : \E dst \in DagNodes(sp.graph) : CachedSolverCall(src, dst)

SpecShortestPath == InitShortestPath /\ [][NextShortestPath]_vars

(***************************************************************************)
(* functional/lazy_eval.rs : the Vec<Option<Value>> cache used directly    *)
(* and through KeyMappedCacheAccess, as test_mapped_cache sets it up.      *)
(* lastput records, per slot, the value of the last put that addressed it. *)
(***************************************************************************)
offset == 100000

\* let key_map_func = |key: &usize| key - offset; the keys start from offset
key_map_func(key) == key - offset

\* impl Cache<OriginalKey, Value> for KeyMappedCacheAccess
mapped_get_from_cache(cache, key) ==
    LET mapped_key == key_map_func(key) IN get_from_cache(cache, mapped_key)

mapped_put_to_cache(cache, key, value) ==
    LET mapped_key == key_map_func(key) IN put_to_cache(cache, mapped_key, value)

CacheKeys == 0..MaxCacheKey

OriginalKeys == offset..(offset + MaxCacheKey)

NoAccess == [op |-> "none", key |-> 0, value |-> 0, result |-> None, before |-> <<>>]

\* let mut cache_vec: Vec<Option<usize>> = Vec::new();
InitCache ==
    /\ mg = MgIdle
    /\ ca = [pc |-> "ready", cache_vec |-> <<>>,
             lastput |-> [k \in CacheKeys |-> None], last |-> NoAccess]
    /\ fp = FpIdle /\ srt = SrtIdle /\ lq = LqIdle /\ ev = EvIdle
    /\ cms = CmsIdle /\ kq = KqIdle /\ pf = PfIdle /\ sp = SpIdle
    /\ ll = LlIdle /\ hp = HpIdle /\ hr = HrIdle

\* cache_vec.get_from_cache(&key)
CacheGet(key) ==
    /\ ca.pc = "ready"
    /\ ca' = [ca EXCEPT !.last = [op |-> "get", key |-> key, value |-> 0,
                                  result |-> get_from_cache(ca.cache_vec, key),
                                  before |-> ca.cache_vec]]
    /\ UNCHANGED <<fp, srt, lq, ev, cms, kq, pf, sp, ll, hp, hr, mg>>

\* cache_vec.put_to_cache(&key, value)
CachePut(key, value) ==
    /\ ca.pc = "ready"
    /\ ca' = [ca EXCEPT !.cache_vec = put_to_cache(@, key, value),
                        !.lastput = [@ EXCEPT ![key] = Some(value)],
                        !.last = [op |-> "put", key |-> key, value |-> value,
                                  result |-> None, before |-> ca.cache_vec]]
    /\ UNCHANGED <<fp, srt, lq, ev, cms, kq, pf, sp, ll, hp, hr, mg>>

\* key_mapped_cache.get_from_cache(&key)
MappedCacheGet(key) ==
    /\ ca.pc = "ready"
    /\ ca' = [ca EXCEPT !.last = [op |-> "mapped_get", key |-> key, value |-> 0,
                                  result |-> mapped_get_from_cache(ca.cache_vec, key),
                                  before |-> ca.cache_vec]]
    /\ UNCHANGED <<fp, srt, lq, ev, cms, kq, pf, sp, ll, hp, hr, mg>>

\* key_mapped_cache.put_to_cache(&key, value)
MappedCachePut(key, value) ==
    /\ ca.pc = "ready"
    /\ ca' = [ca EXCEPT !.cache_vec = mapped_put_to_cache(@, key, value),
                        !.lastput = [k \in CacheKeys |->
                                        IF k + offset = key THEN Some(value) ELSE @[k]],
                        !.last = [op |-> "mapped_put", key |-> key, value |-> value,
                                  result |-> None, before |-> ca.cache_vec]]
    /\ UNCHANGED <<fp, srt, lq, ev, cms, kq, pf, sp, ll, hp, hr, mg>>

NextCache ==
    \/ \E key \in CacheKeys : CacheGet(key)
    \/ \E key \in CacheKeys : \E value \in 1..MaxValue : CachePut(key, value)
    \/ \E key \in OriginalKeys : MappedCacheGet(key)
    \/ \E key \in OriginalKeys : \E value \in 1..MaxValue : MappedCachePut(key, value)

SpecCache == InitCache /\ [][NextCache]_vars

(***************************************************************************)
(* data_structure/linked_list.rs with removal: the arena is a SlotMap with *)
(* generational keys.  A key is <<idx, version>>; a slot holds the version *)
(* (odd while occupied), the node and the link of the free list.  Calls    *)
(* yield [list, result, panicked].                                         *)
(***************************************************************************)
SlotMap_with_key == [slots |-> <<>>, free_head |-> 1]

SlotMap_contains_key(sm, key) ==
    /\ key[1] \in 1..Len(sm.slots)
    /\ sm.slots[key[1]].version = key[2]

SlotMap_len(sm) == Cardinality({i \in 1..Len(sm.slots) : sm.slots[i].version % 2 = 1})

SlotMap_keys(sm) ==
    {<<i, sm.slots[i].version>> : i \in {j \in 1..Len(sm.slots) : sm.slots[j].version % 2 = 1}}

\* self.nodes[key], for a key the map contains
SlotMap_index(sm, key) == Unwrap(sm.slots[key[1]].node)

\* SlotMap::insert: the most recently freed slot is reused first, else a slot
\* is appended; yields [sm, key]
SlotMap_insert(sm, node) ==
    IF sm.free_head <= Len(sm.slots)
    THEN LET idx == sm.free_head
             slot == sm.slots[idx]
         IN [sm |-> [slots |-> [sm.slots EXCEPT ![idx] =
                                   [version |-> slot.version + 1, node |-> Some(node),
                                    next_free |-> 0]],
                     free_head |-> slot.next_free],
             key |-> <<idx, slot.version + 1>>]
    ELSE LET idx == Len(sm.slots) + 1
         IN [sm |-> [slots |-> Append(sm.slots,
                                   [version |-> 1, node |-> Some(node), next_free |-> 0]),
                     free_head |-> idx + 1],
             key |-> <<idx, 1>>]

\* SlotMap::remove: yields [sm, node], node None for a key the map does not
\* contain
SlotMap_remove(sm, key) ==
    IF ~SlotMap_contains_key(sm, key) THEN [sm |-> sm, node |-> None]
    ELSE [sm |-> [slots |-> [sm.slots EXCEPT ![key[1]] =
                                [version |-> key[2] + 1, node |-> None,
                                 next_free |-> sm.free_head]],
                  free_head |-> key[1]],
          node |-> sm.slots[key[1]].node]

SlotMap_set(sm, key, node) == [sm EXCEPT !.slots[key[1]].node = Some(node)]

\* MyLinkedList::new over the SlotMap
MyLinkedList_with_key == [nodes |-> SlotMap_with_key, head_and_tail |-> None]

ListOk(list, result) == [list |-> list, result |-> result, panicked |-> FALSE]

ListPanic(list) == [list |-> list, result |-> None, panicked |-> TRUE]

\* fn link: get_mut(left).unwrap().next = Some(right); get_mut(right).unwrap().prev = Some(left)
MyLinkedList_link(nodes, left, right) ==
    LET nodes1 == SlotMap_set(nodes, left, [SlotMap_index(nodes, left) EXCEPT !.next = Some(right)])
    IN SlotMap_set(nodes1, right, [SlotMap_index(nodes1, right) EXCEPT !.prev = Some(left)])

MyLinkedList_push_back(list, value) ==
    LET ins == SlotMap_insert(list.nodes, [value |-> value, next |-> None, prev |-> None])
        new_key == ins.key
    IN IF list.head_and_tail = None
       THEN ListOk([nodes |-> ins.sm, head_and_tail |-> Some(<<new_key, new_key>>)], Some(new_key))
       ELSE LET head == Unwrap(list.head_and_tail)[1]
                tail == Unwrap(list.head_and_tail)[2]
            IN IF ~SlotMap_contains_key(ins.sm, tail) THEN ListPanic([list EXCEPT !.nodes = ins.sm])
               ELSE ListOk([nodes |-> MyLinkedList_link(ins.sm, tail, new_key),
                            head_and_tail |-> Some(<<head, new_key>>)], Some(new_key))

MyLinkedList_push_front(list, value) ==
    LET ins == SlotMap_insert(list.nodes, [value |-> value, next |-> None, prev |-> None])
        new_key == ins.key
    IN IF list.head_and_tail = None
       THEN ListOk([nodes |-> ins.sm, head_and_tail |-> Some(<<new_key, new_key>>)], Some(new_key))
       ELSE LET head == Unwrap(list.head_and_tail)[1]
                tail == Unwrap(list.head_and_tail)[2]
            IN IF ~SlotMap_contains_key(ins.sm, head) THEN ListPanic([list EXCEPT !.nodes = ins.sm])
               ELSE ListOk([nodes |-> MyLinkedList_link(ins.sm, new_key, head),
                            head_and_tail |-> Some(<<new_key, tail>>)], Some(new_key))

MyLinkedList_insert_after(list, cursor, value) ==
    LET ins == SlotMap_insert(list.nodes, [value |-> value, next |-> None, prev |-> None])
        new_key == ins.key
    IN IF ~SlotMap_contains_key(ins.sm, cursor) THEN ListPanic([list EXCEPT !.nodes = ins.sm])
       ELSE LET cursor_next == SlotMap_index(ins.sm, cursor).next
                nodes1 == MyLinkedList_link(ins.sm, cursor, new_key)
            IN IF cursor_next # None
               THEN IF ~SlotMap_contains_key(nodes1, Unwrap(cursor_next))
                    THEN ListPanic([list EXCEPT !.nodes = nodes1])
                    ELSE ListOk([list EXCEPT !.nodes =
                                    MyLinkedList_link(nodes1, new_key, Unwrap(cursor_next))],
                                Some(new_key))
               ELSE IF list.head_and_tail = None THEN ListPanic([list EXCEPT !.nodes = nodes1])
               ELSE ListOk([nodes |-> nodes1,
                            head_and_tail |-> Some(<<Unwrap(list.head_and_tail)[1], new_key>>)],
                           Some(new_key))

MyLinkedList_insert_before(list, cursor, value) ==
    LET ins == SlotMap_insert(list.nodes, [value |-> value, next |-> None, prev |-> None])
        new_key == ins.key
    IN IF ~SlotMap_contains_key(ins.sm, cursor) THEN ListPanic([list EXCEPT !.nodes = ins.sm])
       ELSE LET cursor_prev == SlotMap_index(ins.sm, cursor).prev
                nodes1 == MyLinkedList_link(ins.sm, new_key, cursor)
            IN IF cursor_prev # None
               THEN IF ~SlotMap_contains_key(nodes1, Unwrap(cursor_prev))
                    THEN ListPanic([list EXCEPT !.nodes = nodes1])
                    ELSE ListOk([list EXCEPT !.nodes =
                                    MyLinkedList_link(nodes1, Unwrap(cursor_prev), new_key)],
                                Some(new_key))
               ELSE IF list.head_and_tail = None THEN ListPanic([list EXCEPT !.nodes = nodes1])
               ELSE ListOk([nodes |-> nodes1,
                            head_and_tail |-> Some(<<new_key, Unwrap(list.head_and_tail)[2]>>)],
                           Some(new_key))

\* the neighbours are not relinked around the removed node
MyLinkedList_remove_at_without_relink(list, cursor) ==
    LET key == cursor
        rem == SlotMap_remove(list.nodes, key)
    IN IF rem.node = None THEN ListOk(list, None)
       ELSE LET node == Unwrap(rem.node) IN
            IF node.prev = None /\ node.next = None
            THEN ListOk([nodes |-> rem.sm, head_and_tail |-> None], Some(node.value))
            ELSE ListOk([list EXCEPT !.nodes = rem.sm], Some(node.value))

\* it will return None if the cursor is invalid
MyLinkedList_remove_at(list, cursor) ==
    LET key == cursor
        rem == SlotMap_remove(list.nodes, key)
    IN IF rem.node = None THEN ListOk(list, None)
       ELSE LET node == Unwrap(rem.node) IN
            IF node.prev = None /\ node.next = None
            THEN ListOk([nodes |-> rem.sm, head_and_tail |-> None], Some(node.value))
            ELSE IF node.prev = None
            THEN LET next == Unwrap(node.next) IN
                 IF list.head_and_tail = None \/ ~SlotMap_contains_key(rem.sm, next)
                 THEN ListPanic([list EXCEPT !.nodes = rem.sm])
                 ELSE ListOk([nodes |-> SlotMap_set(rem.sm, next,
                                           [SlotMap_index(rem.sm, next) EXCEPT !.prev = None]),
                              head_and_tail |-> Some(<<next, Unwrap(list.head_and_tail)[2]>>)],
                             Some(node.value))
            ELSE IF node.next = None
            THEN LET prev == Unwrap(node.prev) IN
                 IF list.head_and_tail = None \/ ~SlotMap_contains_key(rem.sm, prev)
                 THEN ListPanic([list EXCEPT !.nodes = rem.sm])
                 ELSE ListOk([nodes |-> SlotMap_set(rem.sm, prev,
                                           [SlotMap_index(rem.sm, prev) EXCEPT !.next = None]),
                              head_and_tail |-> Some(<<Unwrap(list.head_and_tail)[1], prev>>)],
                             Some(node.value))
            ELSE LET prev == Unwrap(node.prev)
                     next == Unwrap(node.next)
                 IN IF ~SlotMap_contains_key(rem.sm, prev) \/ ~SlotMap_contains_key(rem.sm, next)
                    THEN ListPanic([list EXCEPT !.nodes = rem.sm])
                    ELSE ListOk([list EXCEPT !.nodes = MyLinkedList_link(rem.sm, prev, next)],
                                Some(node.value))

\* every cursor a list has handed out: the occupied versions each slot has had
IssuedCursors(list) ==
    {key \in (1..Len(list.nodes.slots)) \X (1..(2 * MaxRemoved + 2)) :
        key[2] % 2 = 1 /\ key[2] <= list.nodes.slots[key[1]].version}

NoListCall == [op |-> "new", cursor |-> None, result |-> None, before |-> MyLinkedList_with_key]

InitLinkedList ==
    /\ mg = MgIdle
    /\ ll = [pc |-> "ready", list |-> MyLinkedList_with_key, removed |-> 0, last |-> NoListCall]
    /\ fp = FpIdle /\ srt = SrtIdle /\ lq = LqIdle /\ ev = EvIdle
    /\ cms = CmsIdle /\ kq = KqIdle /\ pf = PfIdle /\ sp = SpIdle
    /\ ca = CaIdle /\ hp = HpIdle /\ hr = HrIdle

\* the call has returned r (or panicked) on the list of ll
ListCalled(op, cursor, r) ==
    ll' = [ll EXCEPT !.pc = IF r.panicked THEN "panicked" ELSE "ready",
                     !.list = r.list,
                     !.removed = IF op = "remove_at" /\ r.result # None THEN @ + 1 ELSE @,
                     !.last = [op |-> op, cursor |-> cursor, result |-> r.result,
                               before |-> ll.list]]

HasRoom == SlotMap_len(ll.list.nodes) < MaxSlots

PushBack(value) ==
    /\ ll.pc = "ready" /\ HasRoom
    /\ ListCalled("push_back", None, MyLinkedList_push_back(ll.list, value))
    /\ UNCHANGED <<fp, srt, lq, ev, cms, kq, pf, sp, ca, hp, hr, mg>>

PushFront(value) ==
    /\ ll.pc = "ready" /\ HasRoom
    /\ ListCalled("push_front", None, MyLinkedList_push_front(ll.list, value))
    /\ UNCHANGED <<fp, srt, lq, ev, cms, kq, pf, sp, ca, hp, hr, mg>>

\* the cursor is live
InsertAfter(cursor, value) ==
    /\ ll.pc = "ready" /\ HasRoom
    /\ SlotMap_contains_key(ll.list.nodes, cursor)
    /\ ListCalled("insert_after", Some(cursor), MyLinkedList_insert_after(ll.list, cursor, value))
    /\ UNCHANGED <<fp, srt, lq, ev, cms, kq, pf, sp, ca, hp, hr, mg>>

\* the cursor is live
InsertBefore(cursor, value) ==
    /\ ll.pc = "ready" /\ HasRoom
    /\ SlotMap_contains_key(ll.list.nodes, cursor)
    /\ ListCalled("insert_before", Some(cursor), MyLinkedList_insert_before(ll.list, cursor, value))
    /\ UNCHANGED <<fp, srt, lq, ev, cms, kq, pf, sp, ca, hp, hr, mg>>

\* the cursor is live or stale
RemoveAt(cursor) ==
    /\ ll.pc = "ready"
    /\ SlotMap_contains_key(ll.list.nodes, cursor) => ll.removed < MaxRemoved
    /\ ListCalled("remove_at", Some(cursor), MyLinkedList_remove_at(ll.list, cursor))
    /\ UNCHANGED <<fp, srt, lq, ev, cms, kq, pf, sp, ca, hp, hr, mg>>

NextLinkedList ==
    \/ \E value \in 1..MaxListValue : PushBack(value)
    \/ \E value \in 1..MaxListValue : PushFront(value)
    \/ \E cursor \in IssuedCursors(ll.list) : \E value \in 1..MaxListValue : InsertAfter(cursor, value)
    \/ \E cursor \in IssuedCursors(ll.list) : \E value \in 1..MaxListValue : InsertBefore(cursor, value)
    \/ \E cursor \in IssuedCursors(ll.list) : RemoveAt(cursor)

SpecLinkedList == InitLinkedList /\ [][NextLinkedList]_vars

(***************************************************************************)
(* data_structure/binary_heap.rs : a MyMinHeap of numbers under insert and *)
(* take_min in any order, as test_my_binary_heap uses it.  A number v is   *)
(* the entry HeapValue(v); on such entries heap_comparator is a.cmp(b).    *)
(***************************************************************************)
HeapValue(v) == [element |-> <<v, 0>>, arr_index |-> 0]

NoHeapCall == [op |-> "new", value |-> 0, result |-> None, before |-> <<>>]

\* MyMinHeap::new(&compare)
InitHeap ==
    /\ mg = MgIdle
    /\ hp = [pc |-> "ready", data |-> <<>>, last |-> NoHeapCall]
    /\ fp = FpIdle /\ srt = SrtIdle /\ lq = LqIdle /\ ev = EvIdle
    /\ cms = CmsIdle /\ kq = KqIdle /\ pf = PfIdle /\ sp = SpIdle
    /\ ca = CaIdle /\ ll = LlIdle /\ hr = HrIdle

\* heap.insert(value)
HeapInsert(value) ==
    /\ hp.pc = "ready" /\ Len(hp.data) < MaxHeap
    /\ hp' = [hp EXCEPT !.data = heap_insert(@, HeapValue(value)),
                        !.last = [op |-> "insert", value |-> value, result |-> None,
                                  before |-> hp.data]]
    /\ UNCHANGED <<fp, srt, lq, ev, cms, kq, pf, sp, ca, ll, hr, mg>>

\* heap.take_min()
HeapTakeMin ==
    /\ hp.pc = "ready"
    /\ LET r == take_min(hp.data)
       IN hp' = [hp EXCEPT !.data = r.data,
                           !.last = [op |-> "take_min", value |-> 0, result |-> r.min,
                                     before |-> hp.data]]
    /\ UNCHANGED <<fp, srt, lq, ev, cms, kq, pf, sp, ca, ll, hr, mg>>

NextHeap ==
    \/ \E value \in 1..MaxKey : HeapInsert(value)
    \/ HeapTakeMin

SpecHeap == InitHeap /\ [][NextHeap]_vars

(***************************************************************************)
(* quick_sort/partition.rs : hoare_partition, one loop step at a time.     *)
(* pc is the position in the function: "call", "scan_left" (line 112),     *)
(* "scan_right" (line 121), "meet" (line 126), "returned", "panicked".     *)
(***************************************************************************)
HoareCall(arr, pivot_index) ==
    [pc |-> "call", input |-> arr, arr |-> arr, pivot_index |-> pivot_index,
     pivot |-> None, left_index |-> 0, right_index |-> 0, p |-> 0]

InitHoare ==
    /\ mg = MgIdle
    /\ \E keys \in KeySeqs(0, MaxLenH) : \E pivot_index \in 0..MaxLenH :
          /\ pivot_index < Len(keys) \/ pivot_index = 0
          /\ hr = HoareCall(MkArr(keys), pivot_index)
    /\ fp = FpIdle /\ srt = SrtIdle /\ lq = LqIdle /\ ev = EvIdle
    /\ cms = CmsIdle /\ kq = KqIdle /\ pf = PfIdle /\ sp = SpIdle
    /\ ca = CaIdle /\ ll = LlIdle /\ hp = HpIdle

\* lines 94-101: the assertion, the clone of the pivot, the two indices
HoareEnter ==
    /\ hr.pc = "call"
    /\ LET len == Len(hr.arr) IN
       IF ~(len > 2) \/ hr.pivot_index >= len
       THEN hr' = [hr EXCEPT !.pc = "panicked"]
       ELSE hr' = [hr EXCEPT !.pc = "scan_left",
                             !.pivot = Some(At(hr.arr, hr.pivot_index)),
                             !.left_index = 0,
                             !.right_index = len - 1]
    /\ UNCHANGED <<fp, srt, lq, ev, cms, kq, pf, sp, ca, ll, hp, mg>>

\* one test of the while at line 112
HoareScanLeft ==
    /\ hr.pc = "scan_left"
    /\ IF hr.left_index >= Len(hr.arr)
       THEN hr' = [hr EXCEPT !.pc = "panicked"]
       ELSE IF comparator(At(hr.arr, hr.left_index), Unwrap(hr.pivot)) = "Less"
       THEN hr' = [hr EXCEPT !.left_index = @ + 1]
       ELSE hr' = [hr EXCEPT !.pc = "scan_right"]
    /\ UNCHANGED <<fp, srt, lq, ev, cms, kq, pf, sp, ca, ll, hp, mg>>

\* one test of the while at line 121; right_index is a usize
HoareScanRight ==
    /\ hr.pc = "scan_right"
    /\ IF hr.right_index >= Len(hr.arr)
       THEN hr' = [hr EXCEPT !.pc = "panicked"]
       ELSE IF comparator(At(hr.arr, hr.right_index), Unwrap(hr.pivot)) = "Greater"
       THEN IF hr.right_index = 0
            THEN hr' = [hr EXCEPT !.pc = "panicked"]
            ELSE hr' = [hr EXCEPT !.right_index = @ - 1]
       ELSE hr' = [hr EXCEPT !.pc = "meet"]
    /\ UNCHANGED <<fp, srt, lq, ev, cms, kq, pf, sp, ca, ll, hp, mg>>

\* lines 126-177: return when the indices have met, else swap and advance
HoareMeetOrSwap ==
    /\ hr.pc = "meet"
    /\ IF hr.left_index >= hr.right_index
       THEN IF hr.left_index = hr.right_index
            THEN IF hr.left_index = 0
                 THEN hr' = [hr EXCEPT !.pc = "returned", !.p = hr.left_index + 1]
                 ELSE hr' = [hr EXCEPT !.pc = "returned", !.p = hr.left_index]
            ELSE IF hr.left_index = hr.right_index + 1
            THEN hr' = [hr EXCEPT !.pc = "returned", !.p = hr.left_index]
            ELSE hr' = [hr EXCEPT !.pc = "panicked"]
       ELSE IF hr.right_index = 0
       THEN hr' = [hr EXCEPT !.pc = "panicked"]
       ELSE hr' = [hr EXCEPT !.pc = "scan_left",
                             !.arr = Swap(hr.arr, hr.left_index, hr.right_index),
                             !.left_index = @ + 1,
                             !.right_index = @ - 1]
    /\ UNCHANGED <<fp, srt, lq, ev, cms, kq, pf, sp, ca, ll, hp, mg>>

NextHoare == HoareEnter \/ HoareScanLeft \/ HoareScanRight \/ HoareMeetOrSwap

SpecHoare == InitHoare /\ [][NextHoare]_vars

\* the loop is run to its end
FairSpecHoare == SpecHoare /\ WF_vars(NextHoare)

(***************************************************************************)
(* quick_sort/lazy_quick_sort.rs : the LazyQuickSorter with the set of     *)
(* indices at has been called with so far.                                 *)
(***************************************************************************)
InitLazyQueried ==
    /\ mg = MgIdle
    /\ \E keys \in UNION {[1..n -> 1..MaxKeyL] : n \in 1..MaxLenL} :
          lq = [input |-> MkArr(keys), arr |-> MkArr(keys), root_node |-> Unsorted,
                queried |-> {}, panicked |-> FALSE]
    /\ fp = FpIdle /\ srt = SrtIdle /\ ev = EvIdle /\ cms = CmsIdle
    /\ kq = KqIdle /\ pf = PfIdle /\ sp = SpIdle /\ ca = CaIdle
    /\ ll = LlIdle /\ hp = HpIdle /\ hr = HrIdle

\* LazyQuickSorter::at(index)
LazyAtQueried(index) ==
    /\ ~lq.panicked
    /\ LET r == ensure_sorted(lq.root_node, index, 0, Len(lq.arr), lq.arr)
       IN lq' = [lq EXCEPT !.arr = r.arr, !.root_node = r.node,
                           !.queried = @ \cup {index}, !.panicked = r.panicked]
    /\ UNCHANGED <<fp, srt, ev, cms, kq, pf, sp, ca, ll, hp, hr, mg>>

NextLazyQueried == \E index \in 0..(Len(lq.arr) - 1) : LazyAtQueried(index)

SpecLazyQueried == InitLazyQueried /\ [][NextLazyQueried]_vars

(***************************************************************************)
(* merge_sort/merge.rs : merge_two_adjacent_sorted_sequences_inplace, one  *)
(* call of result_consumer at a time.  moved_out is the set of slots of    *)
(* arr whose element was moved away (by the copy to temp or by ptr::read)  *)
(* and that were not written since; read and wrote are the slots of arr    *)
(* the last step read and wrote.                                           *)
(***************************************************************************)
MergeTwoCall(arr, separation_index) ==
    [pc |-> "called", input |-> arr, arr |-> arr, separation_index |-> separation_index,
     temp |-> <<>>, i1 |-> 0, i2 |-> 0, moved_out |-> {}, read |-> {}, wrote |-> None]

\* the output index is counted from one
merge_two_sorted_sequences_emits_from_one(len1, len2, i1, i2, ordering) ==
    IF i1 < len1 /\ i2 < len2
    THEN IF ordering = "Greater"
         THEN Some([from |-> "arr2", index |-> i1 + i2 + 1])
         ELSE Some([from |-> "arr1", index |-> i1 + i2 + 1])
    ELSE IF i1 < len1 THEN Some([from |-> "arr1", index |-> i1 + i2 + 1])
    ELSE IF i2 < len2 THEN Some([from |-> "arr2", index |-> i1 + i2 + 1])
    ELSE None

\* what merge_two_sorted_sequences hands to result_consumer next at (i1, i2):
\* the sequence the element is taken from and the output index; None when the
\* three loops are over.  ordering is compare(&arr1[i1], &arr2[i2]).
merge_two_sorted_sequences_emits(len1, len2, i1, i2, ordering) ==
    IF i1 < len1 /\ i2 < len2
    THEN IF ordering = "Greater"
         THEN Some([from |-> "arr2", index |-> i1 + i2])
         ELSE Some([from |-> "arr1", index |-> i1 + i2])
    ELSE IF i1 < len1 THEN Some([from |-> "arr1", index |-> i1 + i2])
    ELSE IF i2 < len2 THEN Some([from |-> "arr2", index |-> i1 + i2])
    ELSE None

\* the halves of a call
SortedHalves == SortedKeySeqs(0, MaxHalf)

InitMerge ==
    /\ fp = FpIdle
    /\ srt = SrtIdle
    /\ lq = LqIdle
    /\ ev = EvIdle
    /\ cms = CmsIdle
    /\ kq = KqIdle
    /\ pf = PfIdle
    /\ sp = SpIdle
    /\ ca = CaIdle
    /\ ll = LlIdle
    /\ hp = HpIdle
    /\ hr = HrIdle
    /\ \E left \in SortedHalves, right \in SortedHalves :
          mg = MergeTwoCall(MkArr(left \o right), Len(left))

\* entry: the assert, the early return, and the copy of the left part to temp
MergeTwoEnter ==
    /\ mg.pc = "called"
    /\ LET len == Len(mg.arr)
           separation_index == mg.separation_index
       IN IF ~(separation_index <= len)
          THEN mg' = [mg EXCEPT !.pc = "panicked"]
          ELSE IF separation_index = 0 \/ separation_index = len
          THEN mg' = [mg EXCEPT !.pc = "returned"]
          ELSE mg' = [mg EXCEPT !.pc = "loop",
                                !.temp = copy_nonoverlapping(
                                             [j \in 1..separation_index |-> Uninit],
                                             0, mg.arr, 0, separation_index),
                                !.moved_out = 0..(separation_index - 1),
                                !.read = 0..(separation_index - 1)]
    /\ UNCHANGED <<fp, srt, lq, ev, cms, kq, pf, sp, ca, ll, hp, hr>>

\* one iteration of one of the three loops of merge_two_sorted_sequences with
\* the consumer of merge_two_adjacent_sorted_sequences_inplace; after the loops
\* temp is freed and the call returns
MergeTwoStep ==
    /\ mg.pc = "loop"
    /\ LET len == Len(mg.arr)
           len1 == Len(mg.temp)
           len2 == len - mg.separation_index
           both == mg.i1 < len1 /\ mg.i2 < len2
           slot2 == mg.separation_index + mg.i2
           ordering == IF both THEN comparator(At(mg.temp, mg.i1), At(mg.arr, slot2))
                       ELSE "Equal"
           emitted == merge_two_sorted_sequences_emits(len1, len2, mg.i1, mg.i2, ordering)
           compared == IF both THEN {slot2} ELSE {}
       IN IF emitted = None
          THEN mg' = [mg EXCEPT !.pc = "returned", !.read = {}, !.wrote = None]
          ELSE LET e == Unwrap(emitted)
                   element == IF e.from = "arr1" THEN At(mg.temp, mg.i1)
                              ELSE At(mg.arr, slot2)
                   moved == IF e.from = "arr2" THEN {slot2} ELSE {}
               IN IF ~(e.index < len)
                  THEN mg' = [mg EXCEPT !.pc = "panicked", !.read = compared,
                                        !.wrote = None]
                  ELSE mg' = [mg EXCEPT
                                !.arr[e.index + 1] = element,
                                !.i1 = IF e.from = "arr1" THEN @ + 1 ELSE @,
                                !.i2 = IF e.from = "arr2" THEN @ + 1 ELSE @,
                                !.moved_out = (@ \cup moved) \ {e.index},
                                !.read = compared \cup moved,
                                !.wrote = Some(e.index)]
    /\ UNCHANGED <<fp, srt, lq, ev, cms, kq, pf, sp, ca, ll, hp, hr>>

NextMerge ==
    \/ MergeTwoEnter
    \/ MergeTwoStep

SpecMerge == InitMerge /\ [][NextMerge]_vars

(***************************************************************************)
(* quick_sort/container_agnostic_quick_sort.rs against                     *)
(* quick_sort/partition.rs : the same values and the same pivot position   *)
(* are handed to fat_partition_no_clone_required (slice) and to            *)
(* container_agnostic_fat_partition on a slice and on a MyLinkedList; the  *)
(* three runs take their loop iterations together.                         *)
(***************************************************************************)
\* the index of a container at a position counted from its first element
RECURSIVE index_at(_, _)
index_at(c, position) ==
    IF c.kind = "slice" THEN position
    ELSE IF position = 0 THEN Cursor(Unwrap(begin(c.list)))
    ELSE next_index(c, index_at(c, position - 1))

SameRuns(arr, initial_pivot_index) ==
    [pc |-> "loop", kind |-> "same_runs", input |-> arr,
     initial_pivot_index |-> initial_pivot_index,
     on_arr |-> fat_partition_no_clone_required_enter(arr, initial_pivot_index),
     on_slice |-> container_agnostic_fat_partition_enter(
                      SliceContainer(arr), 0, Len(arr), initial_pivot_index, Len(arr)),
     on_list |-> LET list == ListContainer(to_linked_list(arr))
                 IN container_agnostic_fat_partition_enter(
                        list, Cursor(Unwrap(begin(list.list))), AfterLast,
                        index_at(list, initial_pivot_index), Len(arr))]

InitSameRuns ==
    /\ mg = MgIdle
    /\ srt = SrtIdle
    /\ lq = LqIdle
    /\ ev = EvIdle
    /\ cms = CmsIdle
    /\ kq = KqIdle
    /\ pf = PfIdle
    /\ sp = SpIdle
    /\ ca = CaIdle
    /\ ll = LlIdle
    /\ hp = HpIdle
    /\ hr = HrIdle
    /\ \E keys \in KeySeqs(3, MaxLenP) :
          \E pivot_index \in 0..(Len(keys) - 1) :
             fp = SameRuns(MkArr(keys), pivot_index)

\* every run that has not returned or panicked takes one loop iteration
SameRunsStep ==
    /\ fp.pc = "loop"
    /\ fp.kind = "same_runs"
    /\ LET on_arr == IF fp.on_arr.pc = "loop"
                     THEN fat_partition_no_clone_required_step(fp.on_arr) ELSE fp.on_arr
           on_slice == IF fp.on_slice.pc = "loop"
                       THEN container_agnostic_fat_partition_step(fp.on_slice)
                       ELSE fp.on_slice
           on_list == IF fp.on_list.pc = "loop"
                      THEN container_agnostic_fat_partition_step(fp.on_list)
                      ELSE fp.on_list
       IN fp' = [fp EXCEPT !.on_arr = on_arr, !.on_slice = on_slice, !.on_list = on_list,
                           !.pc = IF on_arr.pc = "loop" \/ on_slice.pc = "loop"
                                     \/ on_list.pc = "loop"
                                  THEN "loop" ELSE "done"]
    /\ UNCHANGED <<srt, lq, ev, cms, kq, pf, sp, ca, ll, hp, hr, mg>>

NextSameRuns == SameRunsStep

SpecSameRuns == InitSameRuns /\ [][NextSameRuns]_vars

(***************************************************************************)
(* merge_sort/merge.rs : merge_multiple_sorted_sequences_naive next to     *)
(* merge_multiple_sorted_sequences_smart on the same sequences, one loop   *)
(* iteration of each at a time; naive_out and smart_out are the calls      *)
(* result_consumer received.                                               *)
(***************************************************************************)
\* the for loop over arr_index that finds the minimum of the heads;
\* min_found is None or Some(<<min_arr_index, min_element>>)
RECURSIVE naive_find_min(_, _, _, _)
naive_find_min(arrs, indices, arr_index, min_found) ==
    IF arr_index >= Len(arrs) THEN min_found
    ELSE LET index_in_arr == At(indices, arr_index)
             curr_arr == At(arrs, arr_index)
         IN IF index_in_arr < Len(curr_arr)
            THEN LET element == At(curr_arr, index_in_arr) IN
                 IF min_found # None
                 THEN IF comparator(element, Unwrap(min_found)[2]) = "Less"
                      THEN naive_find_min(arrs, indices, arr_index + 1,
                                          Some(<<arr_index, element>>))
                      ELSE naive_find_min(arrs, indices, arr_index + 1, min_found)
                 ELSE naive_find_min(arrs, indices, arr_index + 1,
                                     Some(<<arr_index, element>>))
            ELSE naive_find_min(arrs, indices, arr_index + 1, min_found)

merge_multiple_sorted_sequences_naive_enter(arrs) ==
    [pc |-> IF Len(arrs) < 2 THEN "panicked" ELSE "loop", arrs |-> arrs,
     indices |-> [i \in 1..Len(arrs) |-> 0], placing_index |-> 0]

\* one iteration: [m, emitted], as merge_multiple_sorted_sequences_smart_step
merge_multiple_sorted_sequences_naive_step(m) ==
    LET min_found == naive_find_min(m.arrs, m.indices, 0, None) IN
    IF min_found = None
    THEN [m |-> [m EXCEPT !.pc = "returned"], emitted |-> None]
    ELSE LET min_arr_index == Unwrap(min_found)[1]
             min_element == Unwrap(min_found)[2]
         IN [m |-> [m EXCEPT !.indices[min_arr_index + 1] = @ + 1,
                             !.placing_index = @ + 1],
             emitted |-> Some(<<m.placing_index, min_element>>)]

\* sorted sequences with distinct elements: the second component of an
\* element numbers it over all the sequences
SortedSeqsOf(keyseqs) ==
    [s \in 1..Len(keyseqs) |->
        [i \in 1..Len(keyseqs[s]) |->
            <<keyseqs[s][i], SumSizes([t \in 1..Len(keyseqs) |-> Len(keyseqs[t])], s - 1) + i>>]]

MultiMergeCall(arrs) ==
    [pc |-> "loop", kind |-> "multi", arrs |-> arrs,
     naive |-> merge_multiple_sorted_sequences_naive_enter(arrs),
     smart |-> merge_multiple_sorted_sequences_smart_enter(arrs),
     naive_out |-> <<>>, smart_out |-> <<>>]

MergeKeySeqs ==
    {keys \in UNION {[1..n -> 1..MaxMergeKey] : n \in 0..MaxSeqLen} :
        \A i \in 1..(Len(keys) - 1) : keys[i] <= keys[i + 1]}

InitMultiMerge ==
    /\ fp = FpIdle
    /\ srt = SrtIdle
    /\ lq = LqIdle
    /\ ev = EvIdle
    /\ cms = CmsIdle
    /\ kq = KqIdle
    /\ pf = PfIdle
    /\ sp = SpIdle
    /\ ca = CaIdle
    /\ ll = LlIdle
    /\ hp = HpIdle
    /\ hr = HrIdle
    /\ \E n \in 2..MaxSeqs :
          \E keyseqs \in [1..n -> MergeKeySeqs] :
             /\ SumSizes([t \in 1..n |-> Len(keyseqs[t])], n) <= MaxTotal
             /\ mg = MultiMergeCall(SortedSeqsOf(keyseqs))

\* each of the two functions that has not returned takes one loop iteration
\* and its consumer records what it is handed
MultiMergeStep ==
    /\ mg.pc = "loop"
    /\ mg.kind = "multi"
    /\ LET n == IF mg.naive.pc = "loop"
                THEN merge_multiple_sorted_sequences_naive_step(mg.naive)
                ELSE [m |-> mg.naive, emitted |-> None]
           h == IF mg.smart.pc = "loop"
                THEN merge_multiple_sorted_sequences_smart_step(mg.smart)
                ELSE [m |-> mg.smart, emitted |-> None]
       IN mg' = [mg EXCEPT
                   !.naive = n.m,
                   !.smart = h.m,
                   !.naive_out = IF n.emitted = None THEN @ ELSE Append(@, Unwrap(n.emitted)),
                   !.smart_out = IF h.emitted = None THEN @ ELSE Append(@, Unwrap(h.emitted)),
                   !.pc = IF n.m.pc = "loop" \/ h.m.pc = "loop" THEN "loop" ELSE "done"]
    /\ UNCHANGED <<fp, srt, lq, ev, cms, kq, pf, sp, ca, ll, hp, hr>>

NextMultiMerge == MultiMergeStep

SpecMultiMerge == InitMultiMerge /\ [][NextMultiMerge]_vars

\* the scenario of the specification: [5,1,3,5,2,5,4], pivot at index 0
ScenarioArr == MkArr(<<5, 1, 3, 5, 2, 5, 4>>)

InitPartition ==
    /\ mg = MgIdle
    /\ kq = KqIdle
    /\ pf = PfIdle
    /\ sp = SpIdle
    /\ ca = CaIdle
    /\ ll = LlIdle
    /\ hp = HpIdle
    /\ hr = HrIdle
    /\ srt = SrtIdle
    /\ lq = LqIdle
    /\ ev = EvIdle
    /\ cms = CmsIdle
    /\ \/ \E keys \in KeySeqs(3, MaxLenP) :
            \E pivot_index \in 0..(Len(keys) - 1) :
               \/ fp = fat_partition_enter(MkArr(keys), pivot_index)
               \/ fp = fat_partition_no_clone_required_enter(MkArr(keys), pivot_index)
       \/ fp = fat_partition_enter(ScenarioArr, 0)
       \/ fp = fat_partition_no_clone_required_enter(ScenarioArr, 0)

FatPartitionStep ==
    /\ fp.pc = "loop"
    /\ fp.kind = "clone"
    /\ fp' = fat_partition_step(fp)
    /\ UNCHANGED <<srt, lq, ev, cms, kq, pf, sp, ca, ll, hp, hr, mg>>

FatPartitionNoCloneStep ==
    /\ fp.pc = "loop"
    /\ fp.kind = "no_clone"
    /\ fp' = fat_partition_no_clone_required_step(fp)
    /\ UNCHANGED <<srt, lq, ev, cms, kq, pf, sp, ca, ll, hp, hr, mg>>

NextPartition == FatPartitionStep \/ FatPartitionNoCloneStep

SpecPartition == InitPartition /\ [][NextPartition]_vars

(***************************************************************************)
(* Claims about the fat partition.                                         *)
(***************************************************************************)
FpPivot == At(fp.input, fp.initial_pivot_index)

FpKeys(seq) == [i \in 1..Len(seq) |-> Key(seq[i])]

\* C1: for every slice of length >= 3 and every pivot index in range, both
\* fat partitions return (l, r) = (left_index, eq_index) with 0 <= l < r <= len,
\* arr[0..l] Less than the pivot, arr[l..r] Equal to the pivot and to each
\* other, arr[r..] Greater than the pivot, and arr a permutation of the input;
\* neither function panics.
C1_FatPartitionPostcondition ==
    /\ fp.pc # "panicked"
    /\ fp.pc = "returned" =>
          LET l == fp.left_index
              r == fp.eq_index
              n == Len(fp.arr)
          IN /\ 0 <= l /\ l < r /\ r <= n
             /\ \A i \in 0..(l - 1) : comparator(At(fp.arr, i), FpPivot) = "Less"
             /\ \A i \in l..(r - 1) : comparator(At(fp.arr, i), FpPivot) = "Equal"
             /\ \A i, j \in l..(r - 1) :
                   comparator(At(fp.arr, i), At(fp.arr, j)) = "Equal"
             /\ \A i \in r..(n - 1) : comparator(At(fp.arr, i), FpPivot) = "Greater"
             /\ IsPermutation(fp.arr, fp.input)

\* a no-clone run has returned with all three regions non-empty, several
\* elements equal to the pivot, and the slice rearranged
C1_Witness ==
    /\ fp.pc = "returned"
    /\ fp.kind = "no_clone"
    /\ fp.left_index > 0
    /\ fp.eq_index - fp.left_index >= 2
    /\ fp.eq_index < Len(fp.arr)
    /\ fp.arr # fp.input

FpIsScenario ==
    /\ fp.pc = "returned"
    /\ fp.input = ScenarioArr
    /\ fp.initial_pivot_index = 0

\* C10 as stated: on [5,1,3,5,2,5,4] with the pivot at index 0 the partition
\* returns (3, 6) and leaves [1,3,2 | 5,5,5 | 4] up to the order inside the
\* '<' and '>' regions.
C10_ScenarioAsStated ==
    FpIsScenario =>
        /\ fp.left_index = 3
        /\ fp.eq_index = 6
        /\ IsPermutation(FpKeys(Slice(fp.arr, 0, 3)), <<1, 3, 2>>)
        /\ FpKeys(Slice(fp.arr, 3, 6)) = <<5, 5, 5>>
        /\ FpKeys(Slice(fp.arr, 6, 7)) = <<4>>

\* C10 amended: on [5,1,3,5,2,5,4] with the pivot at index 0 the partition
\* returns (4, 7): the four elements 1,3,2,4 (in some order) fill the '<'
\* region, the three 5s fill the '==' region and the '>' region is empty.
C10_ScenarioAmended ==
    FpIsScenario =>
        /\ fp.left_index = 4
        /\ fp.eq_index = 7
        /\ IsPermutation(FpKeys(Slice(fp.arr, 0, 4)), <<1, 3, 2, 4>>)
        /\ FpKeys(Slice(fp.arr, 4, 7)) = <<5, 5, 5>>

C10_Witness ==
    /\ FpIsScenario
    /\ fp.kind = "no_clone"
    /\ FpKeys(fp.arr) = <<1, 3, 2, 4, 5, 5, 5>>

(***************************************************************************)
(* The sequential sort entry points, each called once on a fresh input.    *)
(* srt.arr is the caller's sequence after the call, srt.ret the Vec a      *)
(* function returns.                                                       *)
(***************************************************************************)
SrtResult(fn, panicked, arr, ret) ==
    [pc |-> IF panicked THEN "panicked" ELSE "returned",
     fn |-> fn, input |-> srt.input, arr |-> arr, ret |-> ret]

InitSort ==
    /\ mg = MgIdle
    /\ kq = KqIdle
    /\ pf = PfIdle
    /\ sp = SpIdle
    /\ ca = CaIdle
    /\ ll = LlIdle
    /\ hp = HpIdle
    /\ hr = HrIdle
    /\ fp = FpIdle
    /\ lq = LqIdle
    /\ ev = EvIdle
    /\ cms = CmsIdle
    /\ \E keys \in KeySeqs(0, MaxLen) :
          srt = [pc |-> "call", fn |-> "none", input |-> MkArr(keys),
                 arr |-> MkArr(keys), ret |-> <<>>]

NormalQuickSort ==
    /\ srt.pc = "call"
    /\ LET r == normal_quick_sort(srt.input)
       IN srt' = SrtResult("normal_quick_sort", r.panicked, r.arr, <<>>)
    /\ UNCHANGED <<fp, lq, ev, cms, kq, pf, sp, ca, ll, hp, hr, mg>>

\* container_agnostic_quick_sort(slice, cmp, 0, len, len)
ContainerAgnosticQuickSortSlice ==
    /\ srt.pc = "call"
    /\ LET len == Len(srt.input)
           r == container_agnostic_quick_sort(SliceContainer(srt.input), 0, len, len)
       IN srt' = SrtResult("container_agnostic_quick_sort_slice",
                           r.panicked, r.container.arr, <<>>)
    /\ UNCHANGED <<fp, lq, ev, cms, kq, pf, sp, ca, ll, hp, hr, mg>>

\* container_agnostic_quick_sort(&mut list, cmp, Cursor(list.begin().unwrap()),
\*                               AfterLast, list.size())
ContainerAgnosticQuickSortList ==
    /\ srt.pc = "call"
    /\ srt.input # <<>>
    /\ LET list == to_linked_list(srt.input)
           begin_cursor == Unwrap(begin(list))
           len == Len(list.nodes)
           r == container_agnostic_quick_sort(
                    ListContainer(list), Cursor(begin_cursor), AfterLast, len)
       IN srt' = SrtResult("container_agnostic_quick_sort_list",
                           r.panicked, iter_collect(r.container.list), <<>>)
    /\ UNCHANGED <<fp, lq, ev, cms, kq, pf, sp, ca, ll, hp, hr, mg>>

SimpleMergeSortInplace ==
    /\ srt.pc = "call"
    /\ \E r \in simple_merge_sort_inplace(srt.input) :
          srt' = SrtResult("simple_merge_sort_inplace", r.panicked, r.arr, <<>>)
    /\ UNCHANGED <<fp, lq, ev, cms, kq, pf, sp, ca, ll, hp, hr, mg>>

FunctionalStyleStableQuickSort ==
    /\ srt.pc = "call"
    /\ srt' = SrtResult("functional_style_stable_quick_sort", FALSE, srt.arr,
                        functional_style_stable_quick_sort(srt.arr))
    /\ UNCHANGED <<fp, lq, ev, cms, kq, pf, sp, ca, ll, hp, hr, mg>>

NextSort ==
    \/ NormalQuickSort
    \/ ContainerAgnosticQuickSortSlice
    \/ ContainerAgnosticQuickSortList
    \/ SimpleMergeSortInplace
    \/ FunctionalStyleStableQuickSort

SpecSort == InitSort /\ [][NextSort]_vars

(***************************************************************************)
(* Claims about the sequential sorts.                                      *)
(***************************************************************************)
SrtHasDuplicateKeys ==
    \E i, j \in 1..Len(srt.input) :
        i # j /\ comparator(srt.input[i], srt.input[j]) = "Equal"

\* C7: normal_quick_sort on a slice, container_agnostic_quick_sort on a slice
\* (0, len, len) and on a MyLinkedList (Cursor(head), AfterLast, size) return
\* without panic and leave a permutation of the input in non-decreasing order.
C7_QuickSortsSort ==
    (srt.pc # "call"
       /\ srt.fn \in {"normal_quick_sort", "container_agnostic_quick_sort_slice",
                      "container_agnostic_quick_sort_list"})
    => /\ srt.pc = "returned"
       /\ IsPermutation(srt.arr, srt.input)
       /\ IsNonDecreasing(srt.arr)

\* the linked list of a longest input with equal keys was sorted and changed
C7_Witness ==
    /\ srt.pc = "returned"
    /\ srt.fn = "container_agnostic_quick_sort_list"
    /\ Len(srt.input) = MaxLen
    /\ SrtHasDuplicateKeys
    /\ srt.arr # srt.input

\* C8: simple_merge_sort_inplace leaves the stable sort of the input: a
\* permutation, non-decreasing, Equal elements in their input order.
C8_MergeSortIsStableSort ==
    (srt.pc # "call" /\ srt.fn = "simple_merge_sort_inplace")
    => /\ srt.pc = "returned"
       /\ IsPermutation(srt.arr, srt.input)
       /\ IsNonDecreasing(srt.arr)
       /\ IsStable(srt.arr)

C8_Witness ==
    /\ srt.pc = "returned"
    /\ srt.fn = "simple_merge_sort_inplace"
    /\ Len(srt.input) = MaxLen
    /\ SrtHasDuplicateKeys
    /\ srt.arr # srt.input

\* C9: functional_style_stable_quick_sort returns a permutation of the input
\* that is non-decreasing and stable, and leaves the input slice as it was.
C9_FunctionalSortIsStableSort ==
    (srt.pc # "call" /\ srt.fn = "functional_style_stable_quick_sort")
    => /\ srt.pc = "returned"
       /\ IsPermutation(srt.ret, srt.input)
       /\ IsNonDecreasing(srt.ret)
       /\ IsStable(srt.ret)
       /\ srt.arr = srt.input

C9_Witness ==
    /\ srt.pc = "returned"
    /\ srt.fn = "functional_style_stable_quick_sort"
    /\ Len(srt.input) = MaxLen
    /\ SrtHasDuplicateKeys
    /\ srt.ret # srt.input

(***************************************************************************)
(* Claims about the comparator-based LazyQuickSorter.                      *)
(***************************************************************************)
\* e is an i-th order statistic (0-based) of S under the comparator
IsOrderStatistic(S, i, e) ==
    LET less == Cardinality({j \in 1..Len(S) : comparator(S[j], e) = "Less"})
        less_or_equal == Cardinality({j \in 1..Len(S) : comparator(S[j], e) # "Greater"})
    IN less <= i /\ i < less_or_equal

\* C2: for every non-empty sequence S and every sequence of in-range queries,
\* each at(i) returns without panic an element that is the i-th order
\* statistic of S, and that element is seq[i] of a permutation of S.
C2_AtReturnsOrderStatistic ==
    lq.history # <<>> =>
        LET call == lq.history[1] IN
        /\ ~call.panicked
        /\ IsPermutation(lq.arr, lq.input)
        /\ call.ret = At(lq.arr, call.index)
        /\ IsOrderStatistic(lq.input, call.index, call.ret)

\* a query answered after an earlier query to another index had already
\* rearranged the sequence, itself partitioning again
C2_Witness ==
    /\ Len(lq.history) = 2
    /\ lq.history[1].index # lq.history[2].index
    /\ lq.history[2].before # lq.history[1].before
    /\ lq.history[1].partitions >= 1
    /\ lq.history[1].before # lq.arr
    /\ IsOrderStatistic(lq.input, lq.history[1].index, lq.history[1].ret)

LqRepeatedCall ==
    /\ Len(lq.history) = 2
    /\ lq.history[1].index = lq.history[2].index

\* C3: at(i) called again right after at(i) returns the same element and
\* performs no fat partition and no swap; the sequence is left unchanged.
C3_RepeatedAtDoesNothing ==
    LqRepeatedCall =>
        /\ lq.history[1].ret = lq.history[2].ret
        /\ lq.history[1].partitions = 0
        /\ lq.history[1].swaps = 0
        /\ lq.arr = lq.history[1].before

\* the first of the two calls did partition and rearrange the sequence
C3_Witness ==
    /\ LqRepeatedCall
    /\ lq.history[2].partitions >= 1
    /\ lq.history[2].before # lq.history[1].before
    /\ lq.history[1].partitions = 0

(***************************************************************************)
(* Claims about the fixed-point evaluators.                                *)
(***************************************************************************)
\* C6: the memoizing evaluator returns for every input the value the naive
\* evaluator returns; over any sequence of eval calls the open form is entered
\* at most once per distinct input, and a call for an input already in the
\* cache does not enter it at all.
C6_LazyEvalAgreesAndInvokesOnce ==
    /\ (ev.last.called /\ ev.simple.called /\ ev.last.input = ev.simple.input)
          => ev.last.value = ev.simple.value
    /\ \A x \in 0..MaxInput : ev.lazy.invoked[x] <= 1
    /\ (ev.last.called /\ ev.last.was_cached) => ev.last.invoke_count = 0

\* both evaluators were asked for the same input, the memoizing one after an
\* earlier call had cached part of the recursion, and it entered the open
\* form several times but fewer times than the naive one
C6_Witness ==
    /\ ev.last.called /\ ev.simple.called
    /\ ev.last.input = ev.simple.input
    /\ ~ev.last.was_cached
    /\ ev.last.invoke_count >= 2
    /\ ev.lazy.invoke_count > ev.last.invoke_count
    /\ ev.simple.invoke_count > ev.last.invoke_count
    /\ ev.last.value = ev.simple.value

(***************************************************************************)
(* Claims about concurrent_merge_sort.                                     *)
(***************************************************************************)
CmsPartOf(i) ==
    CHOOSE k \in Workers(cms) :
        /\ part_start(cms.outer_partition, k) < i
        /\ i <= part_end_exclusive(cms.outer_partition, k)

\* C4: for every input and every parallelism P >= 1, on the sequential path
\* and on the worker path, concurrent_merge_sort does not panic and when it
\* returns the sequence is a non-decreasing permutation of the input.
C4_ConcurrentSortSorts ==
    cms.parallelism >= 1 =>
        /\ cms.pc # "panicked"
        /\ cms.pc = "returned" =>
              /\ IsPermutation(cms.arr, cms.input)
              /\ IsNonDecreasing(cms.arr)

\* the worker path returned for an input that was not sorted, and every
\* worker merged at least one element
C4_Witness ==
    /\ cms.pc = "returned"
    /\ cms.path = "workers"
    /\ ~IsNonDecreasing(cms.input)
    /\ \A t \in 1..cms.parallelism : total_range_len(cms.temp_partitions[t]) > 0
    /\ cms.arr # cms.input

\* C5: for every parallelism P >= 1 the returned sequence keeps Equal
\* elements in their input order, also when they were sorted by different
\* workers and when they are Equal to a pivot.
C5_ConcurrentSortStable ==
    (cms.parallelism >= 1 /\ cms.pc = "returned") => IsStable(cms.arr)

\* the worker path returned with two different pivots, and two elements Equal
\* to a pivot came from the parts of two different workers, with a smaller
\* element after them
C5_Witness ==
    /\ cms.pc = "returned"
    /\ cms.path = "workers"
    /\ \E p, q \in 1..Len(cms.pivots) : comparator(cms.pivots[p], cms.pivots[q]) = "Less"
    /\ \E i, j, k \in 1..Len(cms.input), p \in 1..Len(cms.pivots) :
          /\ i < j /\ j < k
          /\ CmsPartOf(i) # CmsPartOf(j)
          /\ comparator(cms.input[i], cms.pivots[p]) = "Equal"
          /\ comparator(cms.input[j], cms.pivots[p]) = "Equal"
          /\ comparator(cms.input[k], cms.input[i]) = "Less"

(***************************************************************************)
(* Claims about the key-extractor LazyQuickSorter.                         *)
(***************************************************************************)
\* C11: for every sequence and every in-range index i, at(i) of the
\* key-extractor LazyQuickSorter returns without panic the i-th smallest
\* element by extracted key, after any sequence of earlier at queries.
C11_KeyAtReturnsOrderStatistic ==
    kq.last.called =>
        /\ ~kq.last.panicked
        /\ IsOrderStatistic(kq.input, kq.last.index, kq.last.ret)

\* the first query on <<2, 3, 1>> asks for index 0 and is answered with key 2
C11_FailingInput ==
    /\ kq.input = MkArr(<<2, 3, 1>>)
    /\ kq.calls = 1
    /\ kq.last.index = 0
    /\ ~kq.last.panicked
    /\ Key(kq.last.ret) = 2

(***************************************************************************)
(* Claims about binary_search_leftmost and RangePartition.                 *)
(***************************************************************************)
EqualPositions(arr, target) ==
    {i \in 0..(Len(arr) - 1) : comparator(At(arr, i), target) = "Equal"}

LessCount(arr, target) ==
    Cardinality({i \in 0..(Len(arr) - 1) : comparator(At(arr, i), target) = "Less"})

\* C12: on a sorted slice binary_search_leftmost returns the smallest index of
\* an element Equal to the target when there is one and otherwise the number
\* of elements Less than the target, whichever equal element the underlying
\* binary search reports.
C12_BinarySearchLeftmost ==
    (pf.fn = "binary_search_leftmost" /\ pf.pc # "called") =>
        /\ pf.pc = "returned"
        /\ LET equal == EqualPositions(pf.arr, pf.target) IN
           IF equal # {}
           THEN pf.ret \in equal /\ \A i \in equal : pf.ret <= i
           ELSE pf.ret = LessCount(pf.arr, pf.target)

\* a target with three or more equal elements, not starting at index 0, was
\* searched; the underlying search may land on any of them
C12_Witness ==
    /\ pf.fn = "binary_search_leftmost"
    /\ pf.pc = "returned"
    /\ Cardinality(EqualPositions(pf.arr, pf.target)) >= 3
    /\ pf.ret > 0
    /\ pf.ret \in EqualPositions(pf.arr, pf.target)

\* C13: for a sorted range and k non-decreasing pivots find_partition_by_pivots
\* returns k+2 monotone endpoints from range.start to range.end such that, for
\* every pivot i, the elements of parts 0..=i are Less than pivot i and the
\* elements of parts i+1..=k are Greater or Equal.
C13_FindPartitionByPivots ==
    (pf.fn = "find_partition_by_pivots" /\ pf.pc # "called") =>
        /\ pf.pc = "returned"
        /\ LET endpoints == pf.ret.endpoints
               k == Len(pf.pivots)
           IN /\ Len(endpoints) = k + 2
              /\ At(endpoints, 0) = pf.range_start
              /\ At(endpoints, k + 1) = pf.range_end
              /\ \A j \in 0..k : At(endpoints, j) <= At(endpoints, j + 1)
              /\ \A i \in 0..(k - 1) :
                    /\ \A x \in pf.range_start..(At(endpoints, i + 1) - 1) :
                          comparator(At(pf.arr, x), pf.pivots[i + 1]) = "Less"
                    /\ \A x \in At(endpoints, i + 1)..(pf.range_end - 1) :
                          comparator(At(pf.arr, x), pf.pivots[i + 1]) # "Less"

\* two pivots, the first one present in a range that does not start at index 0
\* and the second absent from it, with elements between them and after them
C13_Witness ==
    /\ pf.fn = "find_partition_by_pivots"
    /\ pf.pc = "returned"
    /\ pf.range_start > 0
    /\ Len(pf.pivots) = 2
    /\ \E x \in pf.range_start..(pf.range_end - 1) :
          comparator(At(pf.arr, x), pf.pivots[1]) = "Equal"
    /\ \A x \in pf.range_start..(pf.range_end - 1) :
          comparator(At(pf.arr, x), pf.pivots[2]) # "Equal"
    /\ \A j \in 1..2 : part_length(pf.ret, j) > 0

\* C14: for r.start <= r.end and n >= 1, evenly_partition(r, n) yields n+1
\* non-decreasing endpoints from r.start to r.end; parts 0..n-2 have length
\* q = floor((r.end - r.start) / n), the last part has length
\* q + ((r.end - r.start) mod n), and the lengths sum to r.end - r.start.
C14_EvenlyPartition ==
    (/\ pf.fn = "evenly_partition" /\ pf.pc # "called"
     /\ pf.range_start <= pf.range_end /\ pf.part_count >= 1) =>
        /\ pf.pc = "returned"
        /\ LET n == pf.part_count
               total == pf.range_end - pf.range_start
               q == total \div n
               lengths == [j \in 1..n |-> part_length(pf.ret, j - 1)]
           IN /\ Len(pf.ret.endpoints) = n + 1
              /\ At(pf.ret.endpoints, 0) = pf.range_start
              /\ At(pf.ret.endpoints, n) = pf.range_end
              /\ \A j \in 0..(n - 1) : At(pf.ret.endpoints, j) <= At(pf.ret.endpoints, j + 1)
              /\ \A j \in 1..(n - 1) : lengths[j] = q
              /\ lengths[n] = q + (total % n)
              /\ SumSizes(lengths, n) = total

\* a range not starting at 0 whose length is not a multiple of the part count,
\* cut into three or more non-empty parts
C14_Witness ==
    /\ pf.fn = "evenly_partition"
    /\ pf.pc = "returned"
    /\ pf.range_start > 0
    /\ pf.part_count >= 3
    /\ (pf.range_end - pf.range_start) % pf.part_count >= 2
    /\ part_length(pf.ret, 0) >= 1

(***************************************************************************)
(* Claims about median_of_three_pivot.                                     *)
(***************************************************************************)
\* e is the median of the three elements a, b, c under the comparator
IsMedianOfThree(e, a, b, c) ==
    LET three == <<a, b, c>>
        less == Cardinality({j \in 1..3 : comparator(three[j], e) = "Less"})
        greater == Cardinality({j \in 1..3 : comparator(three[j], e) = "Greater"})
    IN less <= 1 /\ greater <= 1

\* C19: for every slice of length >= 1 median_of_three_pivot returns an index
\* in {0, len/2, len-1} whose element is the median of the first, the middle
\* and the last element under the comparator.
C19_MedianOfThree ==
    (pf.fn = "median_of_three_pivot" /\ pf.pc # "called" /\ Len(pf.arr) >= 1) =>
        /\ pf.pc = "returned"
        /\ pf.ret \in {0, Len(pf.arr) \div 2, Len(pf.arr) - 1}
        /\ IsMedianOfThree(At(pf.arr, pf.ret), At(pf.arr, 0),
                           At(pf.arr, Len(pf.arr) \div 2), At(pf.arr, Len(pf.arr) - 1))

\* median_of_three_pivot was called on <<2, 3, 1>> and returned index 2
C19_FailingInput ==
    /\ pf.fn = "median_of_three_pivot"
    /\ pf.pc = "returned"
    /\ pf.arr = MkArr(<<2, 3, 1>>)
    /\ pf.ret = 2

\* the node sequences that follow edges of g from src to dst
DagPaths(g, src, dst) ==
    {p \in UNION {[1..k -> DagNodes(g)] : k \in 1..g.n} :
        /\ p[1] = src /\ p[Len(p)] = dst
        /\ \A i \in 1..(Len(p) - 1) : <<p[i], p[i + 1]>> \in DOMAIN g.edges}

RECURSIVE PathDistance(_, _)
PathDistance(g, p) ==
    IF Len(p) <= 1 THEN 0
    ELSE g.edges[<<p[1], p[2]>>] + PathDistance(g, Tail(p))

IsShortestPath(g, src, dst, p) ==
    /\ p \in DagPaths(g, src, dst)
    /\ \A q \in DagPaths(g, src, dst) : PathDistance(g, p) <= PathDistance(g, q)

\* C15: every query (src, dst) of the memoized DagShortestPathSolver, over
\* either traverser, returns without failing; it returns Some(PathInfo) with
\* the minimum total distance over all paths and the first hop of such a path
\* (distance 0 and next_node = dst when src = dst), None when dst is not
\* reachable from src; on the test graph (a, d) returns next_node b,
\* distance 5.
C15_ShortestPath ==
    sp.pc \in {"returned", "panicked"} =>
        LET g == sp.graph
            src == sp.last.src
            dst == sp.last.dst
            paths == DagPaths(g, src, dst)
        IN /\ sp.pc = "returned"
           /\ paths = {} => sp.last.value = None
           /\ paths # {} =>
                 /\ sp.last.value # None
                 /\ \E p \in paths :
                       /\ IsShortestPath(g, src, dst, p)
                       /\ Unwrap(sp.last.value).distance_to_destination = PathDistance(g, p)
                       /\ Unwrap(sp.last.value).next_node = (IF src = dst THEN dst ELSE p[2])
           /\ (g = TestGraph /\ src = 0 /\ dst = 3) => sp.last.value = Some(PathInfo(1, 5))

\* the HashMapDAG of the test graph queried at (a, c): the recursion reaches
\* (d, c) through b -> d and d has no entry in the map
C15_FailingInput ==
    ~(/\ sp.pc = "panicked" /\ sp.graph = TestGraph
      /\ sp.traverser.kind = "HashMapDAG"
      /\ sp.last.src = 0 /\ sp.last.dst = 2)

\* over the MatrixDAG traverser the statement of C15 holds
C15_MatrixOnly == sp.pc # "idle" /\ sp.traverser.kind = "MatrixDAG" => C15_ShortestPath

\* over a HashMapDAG the answers that are returned are right
C15_HashMapReturned == sp.pc = "returned" => C15_ShortestPath

\* the slot a key of the last access addresses: the key itself, or for the
\* adapter the key counted from offset
AddressedSlot(access) ==
    IF access.op \in {"mapped_get", "mapped_put"}
    THEN CHOOSE k \in CacheKeys : k + offset = access.key
    ELSE access.key

\* C16: on the auto-growing Vec cache, used directly or through
\* KeyMappedCacheAccess, a get returns Some(v) exactly when the last put to
\* its key stored v and None otherwise, also beyond the current length; a put
\* changes the answer of get for its own (projected) key only and leaves the
\* store max(old length, k + 1) slots long with the new slots None.
C16_CacheContract ==
    ca.pc = "ready" =>
        LET a == ca.last
            k == AddressedSlot(a)
        IN /\ \A j \in 0..(MaxCacheKey + 1) :
                 get_from_cache(ca.cache_vec, j)
                     = (IF j \in CacheKeys THEN ca.lastput[j] ELSE None)
           /\ \A key \in OriginalKeys :
                 mapped_get_from_cache(ca.cache_vec, key)
                     = ca.lastput[CHOOSE j \in CacheKeys : j + offset = key]
           /\ a.op \in {"get", "mapped_get"} =>
                 /\ a.result = ca.lastput[k]
                 /\ ca.cache_vec = a.before
           /\ a.op \in {"put", "mapped_put"} =>
                 /\ get_from_cache(ca.cache_vec, k) = Some(a.value)
                 /\ \A j \in 0..(MaxCacheKey + 1) :
                       j # k => get_from_cache(ca.cache_vec, j) = get_from_cache(a.before, j)
                 /\ Len(ca.cache_vec) = (IF Len(a.before) > k THEN Len(a.before) ELSE k + 1)
                 /\ \A i \in (Len(a.before) + 1)..Len(ca.cache_vec) :
                       i # k + 1 => ca.cache_vec[i] = None

\* puts have grown the store past a gap that stays None, and a direct get has
\* then read a slot beyond the length
C16_Witness ==
    /\ ca.pc = "ready"
    /\ ca.last.op = "get" /\ ca.last.key >= Len(ca.cache_vec) /\ ca.last.result = None
    /\ Len(ca.cache_vec) = 3
    /\ ca.cache_vec[1] # None /\ ca.cache_vec[2] = None /\ ca.cache_vec[3] # None

\* the keys met by following next from cursor, at most fuel of them
RECURSIVE KeysFrom(_, _, _)
KeysFrom(list, cursor, fuel) ==
    IF cursor = None \/ fuel = 0 \/ ~SlotMap_contains_key(list.nodes, Unwrap(cursor)) THEN <<>>
    ELSE <<Unwrap(cursor)>>
            \o KeysFrom(list, SlotMap_index(list.nodes, Unwrap(cursor)).next, fuel - 1)

\* what check_valid asserts
ListValid(list) ==
    IF list.head_and_tail = None THEN SlotMap_len(list.nodes) = 0
    ELSE LET head == Unwrap(list.head_and_tail)[1]
             tail == Unwrap(list.head_and_tail)[2]
             visited == KeysFrom(list, Some(head), SlotMap_len(list.nodes) + 1)
         IN /\ SlotMap_contains_key(list.nodes, head)
            /\ SlotMap_contains_key(list.nodes, tail)
            /\ SlotMap_index(list.nodes, head).prev = None
            /\ SlotMap_index(list.nodes, tail).next = None
            /\ {visited[i] : i \in 1..Len(visited)} = SlotMap_keys(list.nodes)
            /\ Len(visited) = SlotMap_len(list.nodes)
            /\ \A i \in 1..Len(visited) :
                  LET next == SlotMap_index(list.nodes, visited[i]).next IN
                  /\ next # None => /\ SlotMap_contains_key(list.nodes, Unwrap(next))
                                    /\ SlotMap_index(list.nodes, Unwrap(next)).prev = Some(visited[i])
                  /\ next = None => visited[i] = tail

\* C17: after any sequence of push_back, push_front, insert_after,
\* insert_before (live cursors) and remove_at, no call has panicked and the
\* list is valid as check_valid demands: head_and_tail is None iff the arena
\* is empty, the head has no prev, the tail no next, following next from the
\* head visits every stored node exactly once and prev(next(c)) = c; a
\* remove_at with a cursor whose node was removed returns None and changes
\* nothing.
C17_ListValid ==
    ll.pc # "idle" =>
        /\ ll.pc = "ready"
        /\ ListValid(ll.list)
        /\ (ll.list.head_and_tail = None) <=> (SlotMap_len(ll.list.nodes) = 0)
        /\ (ll.last.op = "remove_at"
              /\ ~SlotMap_contains_key(ll.last.before.nodes, Unwrap(ll.last.cursor)))
           => (ll.last.result = None /\ ll.list = ll.last.before)

\* a stale cursor was passed to remove_at after its slot was handed out again
\* to a node that is now in the middle of a three-node list
C17_Witness ==
    /\ ll.pc = "ready" /\ ll.last.op = "remove_at"
    /\ ~SlotMap_contains_key(ll.last.before.nodes, Unwrap(ll.last.cursor))
    /\ SlotMap_len(ll.list.nodes) = 3
    /\ \E key \in SlotMap_keys(ll.list.nodes) :
          /\ key[1] = Unwrap(ll.last.cursor)[1] /\ key[2] > Unwrap(ll.last.cursor)[2]
          /\ SlotMap_index(ll.list.nodes, key).prev # None
          /\ SlotMap_index(ll.list.nodes, key).next # None

\* how many entries of data hold the number v
HeapCount(data, v) == Cardinality({i \in 1..Len(data) : data[i] = HeapValue(v)})

\* the numbers take_min returns when it is called until the heap is empty
RECURSIVE Drain(_)
Drain(data) ==
    IF data = <<>> THEN <<>>
    ELSE LET r == take_min(data) IN <<Unwrap(r.min).element[1]>> \o Drain(r.data)

C20_HoarePartition ==
    (hr.pc # "idle" /\ Len(hr.input) >= 3 /\ hr.pivot_index < Len(hr.input)) =>
        /\ hr.pc # "panicked"
        /\ hr.pc = "returned" =>
              /\ 0 < hr.p /\ hr.p < Len(hr.arr)
              /\ \A i \in 0..(hr.p - 1) :
                    comparator(At(hr.arr, i), Unwrap(hr.pivot)) \in {"Less", "Equal"}
              /\ \A i \in hr.p..(Len(hr.arr) - 1) :
                    comparator(At(hr.arr, i), Unwrap(hr.pivot)) = "Greater"

\* [1, 2, 3] with the pivot at index 1 has returned p = 1: arr[1] is the pivot
C20_FailingInput ==
    ~(/\ hr.pc = "returned" /\ hr.input = MkArr(<<1, 2, 3>>) /\ hr.pivot_index = 1
      /\ hr.p = 1 /\ hr.arr = MkArr(<<1, 2, 3>>))

\* what the code does ensure: no panic, 0 < p < len, the left part <= the
\* pivot and the right part >= the pivot, the slice a permutation of the input
C20_HoareWeak ==
    (hr.pc # "idle" /\ Len(hr.input) >= 3 /\ hr.pivot_index < Len(hr.input)) =>
        /\ hr.pc # "panicked"
        /\ hr.pc = "returned" =>
              /\ 0 < hr.p /\ hr.p < Len(hr.arr)
              /\ \A i \in 0..(hr.p - 1) :
                    comparator(At(hr.arr, i), Unwrap(hr.pivot)) \in {"Less", "Equal"}
              /\ \A i \in hr.p..(Len(hr.arr) - 1) :
                    comparator(At(hr.arr, i), Unwrap(hr.pivot)) \in {"Greater", "Equal"}
              /\ {hr.arr[i] : i \in 1..Len(hr.arr)} = {hr.input[i] : i \in 1..Len(hr.input)}

\* every call comes to an end
C20_HoareTerminates == <>(hr.pc \in {"returned", "panicked"})

(***************************************************************************)
(* Claims about the node tree of the comparator-based LazyQuickSorter.     *)
(***************************************************************************)
\* the nodes of the tree below node, each with the path from the root ("l",
\* "r" steps), its state, the range [L, R) ensure_sorted is called with for
\* it, and its recorded boundaries (0 when it records none)
RECURSIVE TreeNodes(_, _, _, _)
TreeNodes(node, path, L, R) ==
    IF node.state = "PartiallySorted"
    THEN {[path |-> path, state |-> node.state, L |-> L, R |-> R,
           pl |-> node.partition_left, pr |-> node.partition_right]}
         \cup TreeNodes(node.left_child, path \o <<"l">>, L, node.partition_left)
         \cup TreeNodes(node.right_child, path \o <<"r">>, node.partition_right, R)
    ELSE {[path |-> path, state |-> node.state, L |-> L, R |-> R, pl |-> 0, pr |-> 0]}

LqNodes == TreeNodes(lq.root_node, <<>>, 0, Len(lq.arr))

\* the elements of arr[from..to)
RangeElems(arr, from, to) == {arr[i + 1] : i \in from..(to - 1)}

\* the three bands of a PartiallySorted node hold Less, Equal, Greater
\* elements
BandsOrdered(arr, n) ==
    /\ n.L <= n.pl /\ n.pl < n.pr /\ n.pr <= n.R
    /\ \A a \in RangeElems(arr, n.L, n.pl) : \A e \in RangeElems(arr, n.pl, n.pr) :
          comparator(a, e) = "Less"
    /\ \A e1 \in RangeElems(arr, n.pl, n.pr) : \A e2 \in RangeElems(arr, n.pl, n.pr) :
          comparator(e1, e2) = "Equal"
    /\ \A b \in RangeElems(arr, n.pr, n.R) : \A e \in RangeElems(arr, n.pl, n.pr) :
          comparator(b, e) = "Greater"

\* the call leaves every element of the node in the band it was in
BandsKept(n) ==
    /\ RangeElems(lq'.arr, n.L, n.pl) = RangeElems(lq.arr, n.L, n.pl)
    /\ RangeElems(lq'.arr, n.pl, n.pr) = RangeElems(lq.arr, n.pl, n.pr)
    /\ RangeElems(lq'.arr, n.pr, n.R) = RangeElems(lq.arr, n.pr, n.R)

C21_BandsOrderedNow ==
    \A n \in LqNodes :
       n.state = "PartiallySorted" =>
          /\ BandsOrdered(lq.arr, n)
          /\ \A c \in LqNodes :
                /\ c.path = n.path \o <<"l">> => (c.L = n.L /\ c.R = n.pl)
                /\ c.path = n.path \o <<"r">> => (c.L = n.pr /\ c.R = n.R)

C21_BandsKeptByCall ==
    \A n \in LqNodes : n.state = "PartiallySorted" => BandsKept(n)

\* C21: in every state reachable by at queries, every PartiallySorted node
\* over [L, R) with boundaries (pl, pr) has L <= pl < pr <= R, seq[L..pl] Less
\* than seq[pl..pr], seq[pl..pr] all Equal, seq[pr..R] Greater, and children
\* over exactly [L, pl) and [pr, R); no later query moves an element across
\* pl or pr.
C21_PartiallySortedBands == [](C21_BandsOrderedNow) /\ [][C21_BandsKeptByCall]_vars

\* the root has three non-empty bands, there is a PartiallySorted node below
\* it, and the last query rearranged elements
C21_Witness ==
    /\ lq.history # <<>> /\ lq.history[1].before # lq.arr
    /\ lq.root_node.state = "PartiallySorted"
    /\ 0 < lq.root_node.partition_left /\ lq.root_node.partition_right < Len(lq.arr)
    /\ \E n \in LqNodes :
          n.state = "PartiallySorted" /\ n.path # <<>>

LqNodesAfter == TreeNodes(lq'.root_node, <<>>, 0, Len(lq'.arr))

IsPrefix(p, q) == Len(p) <= Len(q) /\ SubSeq(q, 1, Len(p)) = p

C22_FinalPositions ==
    \A n \in LqNodes :
       n.state = "FullySorted" =>
          \A i \in n.L..(n.R - 1) : IsOrderStatistic(lq.input, i, At(lq.arr, i))

C22_StaysFullySorted ==
    \A n \in LqNodes :
       n.state = "FullySorted" =>
          /\ \E m \in LqNodesAfter : m.state = "FullySorted" /\ IsPrefix(m.path, n.path)
          /\ Slice(lq'.arr, n.L, n.R) = Slice(lq.arr, n.L, n.R)

\* C22: in every state reachable by at queries, a FullySorted node over
\* [L, R) has every element of seq[L..R] in its final position (seq[i] is an
\* i-th smallest element of the input); a FullySorted node never becomes
\* Unsorted or PartiallySorted again (it stays, or an ancestor that absorbs it
\* is FullySorted) and its range is never modified again.
C22_FullySortedIsFinal == [](C22_FinalPositions) /\ [][C22_StaysFullySorted]_vars

\* a FullySorted node of two or more elements lies below a PartiallySorted
\* root whose other child is not FullySorted, and a query has just been
\* answered without touching it
C22_Witness ==
    /\ Len(lq.history) = 2 /\ lq.root_node.state = "PartiallySorted"
    /\ \E n \in LqNodes : \E m \in LqNodes :
          /\ n.state = "FullySorted" /\ Len(n.path) = 1 /\ n.R - n.L >= 2
          /\ m.state # "FullySorted" /\ Len(m.path) = 1
          /\ lq.history[1].index \notin n.L..(n.R - 1)

\* C23: once at(i) has been called for every index i of a node's (non-empty)
\* range, in particular of the root's, that node is FullySorted, also when a
\* partition leaves an empty Less or Greater side.
C23_QueriedRangeIsFullySorted ==
    \A n \in LqNodes :
       (n.L < n.R /\ (n.L..(n.R - 1)) \subseteq lq.queried) => n.state = "FullySorted"

\* [1, 1, 2] after at(0), at(1), at(2): the root is still PartiallySorted, its
\* left child over the empty range [0, 0) is Unsorted
C23_FailingInput ==
    ~(/\ lq.input = MkArr(<<1, 1, 2>>) /\ lq.queried = {0, 1, 2}
      /\ lq.root_node.state = "PartiallySorted"
      /\ lq.root_node.partition_left = 0
      /\ lq.root_node.left_child.state = "Unsorted")

\* what does hold: every element of a fully queried range is in its final
\* position, whatever the state of the node
C23_QueriedRangeIsSorted ==
    \A n \in LqNodes :
       (n.L < n.R /\ (n.L..(n.R - 1)) \subseteq lq.queried) =>
          \A i \in n.L..(n.R - 1) : IsOrderStatistic(lq.input, i, At(lq.arr, i))

\* the nodes that are PartiallySorted after the call and were not before it
NewlyPartitioned ==
    {m \in LqNodesAfter :
        /\ m.state = "PartiallySorted"
        /\ ~\E n \in LqNodes : n.path = m.path /\ n.state = "PartiallySorted"}

\* the nodes the call worked on: changed or created, and no longer Unsorted
TouchedByCall == {m \in LqNodesAfter : m \notin LqNodes /\ m.state # "Unsorted"}

C24_PartitionOncePerNode ==
    LET call == lq'.history[1] IN
    \* every fat partition of the call made one Unsorted node of length >= 3
    \* PartiallySorted
    /\ call.partitions = Cardinality(NewlyPartitioned)
    /\ \A m \in NewlyPartitioned :
          /\ m.R - m.L >= 3
          /\ \A n \in LqNodes : n.path = m.path => n.state = "Unsorted"
    \* a PartiallySorted node keeps its boundaries until it is FullySorted
    /\ \A n \in LqNodes :
          n.state = "PartiallySorted" =>
             /\ \A m \in LqNodesAfter :
                   m.path = n.path =>
                      \/ m.state = "FullySorted"
                      \/ (m.state = "PartiallySorted" /\ m.pl = n.pl /\ m.pr = n.pr)
             /\ \E m \in LqNodesAfter : IsPrefix(m.path, n.path) /\ m.state # "Unsorted"
             \* a query inside [pl, pr) goes into neither child
             /\ (call.index >= n.pl /\ call.index < n.pr) =>
                   \A m \in LqNodes \cup LqNodesAfter :
                      IsPrefix(n.path, m.path) => (m \in LqNodes /\ m \in LqNodesAfter)
    \* the call went down one path of the tree
    /\ \A m1 \in TouchedByCall : \A m2 \in TouchedByCall :
          IsPrefix(m1.path, m2.path) \/ IsPrefix(m2.path, m1.path)

\* C24: over any sequence of at queries fat partition is run at most once
\* for any node: only an Unsorted node of length >= 3 is partitioned, it is
\* PartiallySorted when the call returns, its boundaries never change
\* afterwards, and each query descends into at most one child per node, into
\* none when the index lies in [pl, pr).
C24_PartitionedAtMostOnce == [][C24_PartitionOncePerNode]_vars

\* a query that partitioned a node below a root an earlier query had
\* partitioned
C24_Witness ==
    /\ Len(lq.history) = 2
    /\ lq.history[2].partitions >= 1 /\ lq.history[1].partitions >= 1
    /\ lq.root_node.state = "PartiallySorted"
    /\ \E n \in LqNodes : n.state = "PartiallySorted" /\ n.path # <<>>


(***************************************************************************)
(* C25: the phases of concurrent_merge_sort are separated by joins.        *)
(***************************************************************************)
\* the workers of the call have buffers (allocated or not yet)
C25_HasBuffers == cms.path = "workers" /\ Len(cms.temps) = cms.parallelism

\* worker t copies its sub-parts out of the sequence in this step
C25_Copies(t) == C25_HasBuffers /\ cms.temps[t + 1] = None /\ cms'.temps[t + 1] # None

\* the buffer of worker t is freed in this step
C25_Frees(t) == C25_HasBuffers /\ cms.temps[t + 1] # None /\ cms'.temps[t + 1] = None

\* a phase-5 worker writes into the sequence in this step
C25_MergeWrites == cms.path = "workers" /\ cms.merges # <<>> /\ cms'.arr # cms.arr

C25_PhaseOrder ==
    /\ \A t \in Workers(cms) :
          C25_Copies(t) =>
              /\ cms.sorted = Workers(cms)
              /\ Len(cms.pivots) = cms.parallelism - 1
              /\ Len(cms.sub_partitions) = cms.parallelism
              /\ cms.merges = <<>>
    /\ C25_MergeWrites =>
          /\ C25_HasBuffers
          /\ \A t \in Workers(cms) : cms.temps[t + 1] # None
    /\ \A t \in Workers(cms) :
          C25_Frees(t) =>
              /\ Len(cms.merges) = cms.parallelism
              /\ \A u \in Workers(cms) : cms.merges[u + 1].pc = "returned"

\* C25: in every interleaving of the workers, no worker copies in phase 4
\* before every phase-1 sort, the pivot selection and the sub-partitioning are
\* done, no worker writes into the sequence in phase 5 before every phase-4
\* copy is done, and no buffer is freed before every phase-5 merge is done
C25_PhasesSeparatedByJoins == [][C25_PhaseOrder]_vars

\* two phase-5 workers are interleaved: one has written, another is not done
C25_Witness ==
    /\ cms.pc = "merging"
    /\ cms.parallelism >= 2
    /\ \E t, u \in Workers(cms) :
          /\ t # u
          /\ cms.merges[t + 1].placing_index > 0
          /\ cms.merges[u + 1].pc = "loop"


(***************************************************************************)
(* C26: the destination regions of the phase-5 workers.                    *)
(***************************************************************************)
\* the size of worker k's buffer
C26_BufferSize(k) == total_range_len(cms.temp_partitions[k + 1])

\* the slots of worker k's destination region
C26_Region(k) ==
    {j \in 0..(Len(cms.arr) - 1) :
        /\ j >= part_start(cms.result_partitions, k)
        /\ j < part_end_exclusive(cms.result_partitions, k)}

\* the layouts are computed: phases 4 and 5 and the return of the worker path
C26_LaidOut == cms.path = "workers" /\ cms.temp_partitions # <<>>

C26_RegionsNow ==
    /\ cms.path = "workers" => cms.pc # "panicked"
    /\ C26_LaidOut =>
          /\ \A k \in Workers(cms) :
                /\ part_start(cms.result_partitions, k)
                      = SumSizes([t \in 1..cms.parallelism |-> C26_BufferSize(t - 1)], k)
                /\ part_length(cms.result_partitions, k) = C26_BufferSize(k)
                /\ Cardinality(C26_Region(k)) = C26_BufferSize(k)
          /\ \A k, m \in Workers(cms) : k # m => C26_Region(k) \cap C26_Region(m) = {}
          /\ UNION {C26_Region(k) : k \in Workers(cms)} = 0..(Len(cms.arr) - 1)
          /\ cms.merges # <<>> =>
                \A k \in Workers(cms) :
                   /\ cms.merges[k + 1].placing_index <= C26_BufferSize(k)
                   /\ cms.merges[k + 1].pc = "returned" =>
                         cms.merges[k + 1].placing_index = C26_BufferSize(k)

\* worker k hands one element to its consumer in this step
C26_Writes(k) ==
    /\ cms.pc = "merging"
    /\ cms'.merges[k + 1].placing_index # cms.merges[k + 1].placing_index

C26_WritesInRegion ==
    cms.pc = "merging" =>
       /\ \A k \in Workers(cms) :
             C26_Writes(k) =>
                LET index == cms.merges[k + 1].placing_index
                    slot == part_start(cms.result_partitions, k) + index
                IN /\ cms'.merges[k + 1].placing_index = index + 1
                   /\ slot \in C26_Region(k)
                   /\ \A m \in Workers(cms) \ {k} :
                         /\ slot \notin C26_Region(m)
                         /\ cms'.merges[m + 1] = cms.merges[m + 1]
                   /\ \A j \in 0..(Len(cms.arr) - 1) :
                         j # slot => At(cms'.arr, j) = At(cms.arr, j)
                   /\ \E i \in 1..C26_BufferSize(k) :
                         At(cms'.arr, slot) = Unwrap(cms.temps[k + 1])[i]
       /\ (\A k \in Workers(cms) : ~C26_Writes(k)) => cms'.arr = cms.arr

\* C26: worker k's destination region starts at the sum of the buffer sizes of
\* the workers before it and is as long as its own buffer; the regions are
\* pairwise disjoint and cover the whole sequence; in every interleaving a
\* worker writes the slots of its region one after the other, each once, and
\* no other slot, and the assertion index < merge_region_len never fails
C26_DisjointDestinationRegions == [](C26_RegionsNow) /\ [][C26_WritesInRegion]_vars

\* two workers with regions of different lengths have both written
C26_Witness ==
    /\ cms.pc = "merging"
    /\ \E k, m \in Workers(cms) :
          /\ C26_BufferSize(k) # C26_BufferSize(m)
          /\ cms.merges[k + 1].placing_index > 0
          /\ cms.merges[m + 1].placing_index > 0
          /\ cms.merges[k + 1].pc = "loop"
          /\ cms.merges[m + 1].pc = "loop"


(***************************************************************************)
(* C27: merge_two_adjacent_sorted_sequences_inplace moves elements safely. *)
(***************************************************************************)
\* the slots of the right half whose element was not consumed yet
C27_UnreadRight(m) == {j \in 0..(Len(m.arr) - 1) : j >= m.separation_index + m.i2}

C27_SafeNow ==
    /\ mg.pc # "panicked"
    /\ mg.pc = "loop" =>
          /\ mg.i1 + mg.i2 <= mg.separation_index + mg.i2
          /\ mg.i1 + mg.i2 = mg.separation_index + mg.i2 => mg.i1 = Len(mg.temp)
          /\ mg.moved_out \cap C27_UnreadRight(mg) = {}
    /\ mg.pc = "returned" =>
          /\ mg.moved_out = {}
          /\ IsPermutation(mg.arr, mg.input)
          /\ mg.arr = merge_two_adjacent_sorted_sequences_inplace(mg.input,
                                                                  mg.separation_index).arr

C27_SafeStep ==
    mg.pc = "loop" =>
       /\ mg'.read \cap mg.moved_out = {}
       /\ mg'.wrote # None =>
             /\ Unwrap(mg'.wrote) = mg.i1 + mg.i2
             /\ Unwrap(mg'.wrote) \notin C27_UnreadRight(mg')
             /\ Unwrap(mg'.wrote) \in mg.moved_out \cup mg'.read

\* C27: for every pair of sorted halves no slot of arr is read between the
\* moment its element is moved out and the next write into it, and no write
\* hits a right-half element that was not consumed: the write position i1 + i2
\* never exceeds separation_index + i2 and equals it only when the left-half
\* buffer is exhausted; on return every slot holds exactly one input element
C27_MergeMovesSafely == [](C27_SafeNow) /\ [][C27_SafeStep]_vars

\* elements of both halves were written and both halves still have elements
C27_Witness ==
    /\ mg.pc = "loop"
    /\ mg.i1 > 0 /\ mg.i1 < Len(mg.temp)
    /\ mg.i2 > 0 /\ mg.separation_index + mg.i2 < Len(mg.arr)
    /\ mg.wrote # None


(***************************************************************************)
(* C28: the sub-partitions of the parts after phase 3.                     *)
(***************************************************************************)
\* phase 3 is over and no worker has written into the sequence since
C28_AfterPhase3 == cms.path = "workers" /\ cms.pc = "copying"

\* the elements of sub-regions from..to - 1 of part i
C28_SubElems(i, from, to) ==
    {At(cms.arr, p) : p \in {q \in 0..(Len(cms.arr) - 1) :
        /\ q >= part_start(cms.sub_partitions[i + 1], from)
        /\ q < part_end_exclusive(cms.sub_partitions[i + 1], to - 1)}}

\* part i is split at pivot j as find_partition_by_pivots splits
C28_SplitStrictly(i, j) ==
    /\ \A e \in C28_SubElems(i, 0, j + 1) : comparator(e, At(cms.pivots, j)) = "Less"
    /\ \A e \in C28_SubElems(i, j + 1, cms.parallelism) :
          comparator(e, At(cms.pivots, j)) # "Less"

\* part i is split at pivot j, elements Equal to the pivot may be on both sides
C28_SplitWeakly(i, j) ==
    /\ \A e \in C28_SubElems(i, 0, j + 1) : comparator(e, At(cms.pivots, j)) # "Greater"
    /\ \A e \in C28_SubElems(i, j + 1, cms.parallelism) :
          comparator(e, At(cms.pivots, j)) # "Less"

RECURSIVE C29_Position(_, _)
C29_Position(c, index) ==
    IF c.kind = "slice" THEN index
    ELSE IF index.tag = "AfterLast" THEN Len(c.list.nodes)
    ELSE IF c.list.nodes[index.key].prev = None THEN 0
    ELSE 1 + C29_Position(c, Cursor(Unwrap(c.list.nodes[index.key].prev)))

C29_Elements(c) == IF c.kind = "slice" THEN c.arr ELSE iter_collect(c.list)

\* the run s of container_agnostic_fat_partition mirrors the run of
\* fat_partition_no_clone_required
C29_Mirrors(s) ==
    LET c == s.container
        ref == fp.on_arr
    IN /\ s.pc = ref.pc
       /\ s.pc # "panicked"
       /\ C29_Elements(c) = ref.arr
       /\ C29_Position(c, s.left_index) = ref.left_index
       /\ C29_Position(c, s.eq_index) = ref.eq_index
       /\ C29_Position(c, s.right_index) = ref.right_index
       /\ C29_Position(c, s.curr_pivot_index) = ref.curr_pivot_index
       /\ s.left_part_size = ref.left_index
       /\ s.left_part_and_eq_part_size = ref.eq_index
       /\ s.right_part_size = s.range_size - 1 - ref.right_index
       /\ c.kind = "list" => s.right_index.tag = "Cursor"
       /\ s.pc = "returned" =>
             /\ C29_Position(c, s.left) = ref.left_index
             /\ C29_Position(c, s.right) = ref.eq_index
             /\ s.left_part_size = ref.left_index
             /\ s.right_part_size = Len(ref.arr) - ref.eq_index
             /\ s.left # s.right

\* C29: on a slice over [0, len) and on a MyLinkedList with the same values
\* over [Cursor(head), AfterLast), with the same pivot position,
\* container_agnostic_fat_partition makes the swaps of
\* fat_partition_no_clone_required, ends with the same arrangement and returns
\* positions and part sizes matching (l, len - r); its counters mirror the
\* cursor positions, the right cursor stays inside the range and the final
\* assertions hold
C29_SameAlgorithm ==
    fp.pc # "idle" => C29_Mirrors(fp.on_slice) /\ C29_Mirrors(fp.on_list)

\* the three runs returned after a swap that moved the pivot, with non-empty
\* left and right parts
C29_Witness ==
    /\ fp.pc = "done"
    /\ fp.on_list.pc = "returned"
    /\ fp.on_list.left_part_size > 0
    /\ fp.on_list.right_part_size > 0
    /\ fp.on_list.curr_pivot_index # index_at(fp.on_list.container, fp.initial_pivot_index)
    /\ fp.on_arr.arr # fp.input


(***************************************************************************)
(* C30: the heap-backed k-way merge against the naive one.                 *)
(***************************************************************************)
\* the number of the sequence an element comes from
C30_Source(element) ==
    CHOOSE s \in 1..Len(mg.arrs) : \E i \in 1..Len(mg.arrs[s]) : mg.arrs[s][i] = element

C30_Total == SumSizes([t \in 1..Len(mg.arrs) |-> Len(mg.arrs[t])], Len(mg.arrs))

\* out is a run of consumer calls with indices 0, 1, ... in order, elements
\* non-decreasing and Equal elements ordered by source and place in the source
C30_InOrder(out) ==
    /\ \A k \in 1..Len(out) : out[k][1] = k - 1
    /\ \A k \in 1..(Len(out) - 1) :
          LET a == out[k][2]
              b == out[k + 1][2]
          IN /\ comparator(a, b) # "Greater"
             /\ comparator(a, b) = "Equal" =>
                   /\ C30_Source(a) <= C30_Source(b)
                   /\ a[2] < b[2]

\* C30: for two or more sorted sequences, empty ones and duplicates across
\* sequences included, merge_multiple_sorted_sequences_smart hands the consumer
\* the (index, element) sequence merge_multiple_sorted_sequences_naive hands
\* it: indices 0..total - 1 in order, elements non-decreasing, and among Equal
\* elements those of the lower-numbered sequence first
C30_SmartAgreesWithNaive ==
    (mg.pc # "idle" /\ mg.kind = "multi") =>
       /\ mg.smart_out = mg.naive_out
       /\ mg.smart.pc = mg.naive.pc
       /\ mg.smart.pc # "panicked"
       /\ C30_InOrder(mg.smart_out)
       /\ mg.pc = "done" =>
             /\ Len(mg.smart_out) = C30_Total
             /\ UNION {ElemSet(mg.arrs[s]) : s \in 1..Len(mg.arrs)}
                   = {mg.smart_out[k][2] : k \in 1..Len(mg.smart_out)}

\* three sequences, one of them empty, the other two sharing a key with a
\* smaller key behind them in the heap, all handed over
C30_Witness ==
    /\ mg.pc = "done"
    /\ Len(mg.arrs) >= 3
    /\ \E s \in 1..Len(mg.arrs) : mg.arrs[s] = <<>>
    /\ \E s, t \in 1..Len(mg.arrs) :
          /\ s < t
          /\ Len(mg.arrs[s]) >= 2
          /\ mg.arrs[t] # <<>>
          /\ comparator(mg.arrs[s][2], mg.arrs[t][1]) = "Equal"

====
